---- MODULE Spec2Model ----
(***************************************************************************)
(* Verification model of the Wikidata text-embedding pipeline.             *)
(*                                                                         *)
(* Part 1  WikidataDumpReader (src/src/wikidataDumpReader.py): one         *)
(*         producer process, N consumer processes, an optional reporter    *)
(*         process and the parent that starts and joins them.              *)
(*                                                                         *)
(* Part 2  The staged ingestion scripts (src/docker/1_Data_Processing_     *)
(*         save_ids, 2_Data_Processing_save_entities, 2_Data_Processing_   *)
(*         save_items_per_lang) with the IdStore and LangStore tables      *)
(*         (src/src/wikidataDB.py, src/src/wikidataLangDB.py).             *)
(*                                                                         *)
(* Each part has its own specification; the variables of the other parts   *)
(* stay at their initial values.                                           *)
(***************************************************************************)
EXTENDS Integers, Sequences, FiniteSets, TLC

(***************************************************************************)
(* Bounds of the model                                                     *)
(***************************************************************************)
\* longest dump file (number of lines)
MaxLines == 2
\* num_processes: number of consumer processes
NumProcesses == 2
\* queue_size: maxsize of the shared multiprocessing.Queue
QueueSize == 1

\* Python's None, among strings and among integers
None == "None"
NoneInt == 0 - 1

Consumers == 1..NumProcesses

(***************************************************************************)
(* Part 1: state of the dump reader                                        *)
(***************************************************************************)
VARIABLES
  \* --- inputs of the run, fixed at Init --------------------------------
  file_lines,      \* the lines of the dump file, each a kind of line
  extension,       \* self.extension
  file_opens,      \* whether open()/gzip.open()/bz2.open() succeeds
  skiplines,       \* self.skiplines
  max_iterations,  \* argument of run(): None or an integer
  verbose,         \* argument of run()
  \* --- shared objects --------------------------------------------------
  queue_buffer,    \* multiprocessing.Queue: lines put() but not yet written
                   \* to the pipe by the queue's feeder thread
  queue_pipe,      \* multiprocessing.Queue: lines in the pipe; get() and
                   \* empty() look only at the pipe
  finished,        \* self.finished.value
  iterations,      \* self.iterations.value
  \* --- control state ---------------------------------------------------
  pcRun,           \* position of run() in the parent process
  pcProducer,      \* position of _producer
  next_line,       \* index in file_lines of the next line lines_gen yields
  iters,           \* local variable iters of _producer
  pcConsumer,      \* position of each _consumer
  line,            \* local variable line of each _consumer (a line index)
  pcReporter,      \* position of _reporter
  \* --- history (not program state) -------------------------------------
  enqueued,        \* line indices the producer has put on the queue
  handled          \* for each line index, number of handler_func calls

readerVars == <<file_lines, extension, file_opens, skiplines, max_iterations,
                verbose, queue_buffer, queue_pipe, finished, iterations,
                pcRun, pcProducer, next_line, iters, pcConsumer, line,
                pcReporter, enqueued, handled>>

(***************************************************************************)
(* Part 2: state of the staged ingestion                                   *)
(***************************************************************************)
VARIABLES
  \* --- inputs, fixed at Init -------------------------------------------
  dump,            \* ids of the entities of the dump file
  stage_a_runs,    \* how often the save_ids script is run over the dump
  script_b,        \* which stage B script runs after stage A
  \* --- the scripts ------------------------------------------------------
  phase,           \* "A1", "A2" (runs of save_ids), "B", "end"
  pcMain,          \* position of the script's __main__ block
  main_worked,     \* local variable worked of the __main__ block
  pending,         \* entities the reader has not yet handed to a handler
  batch,           \* the Manager().list(): bulk_ids / data_batch
  lock,            \* the Manager().Lock(): its holder, or 0
  hpc,             \* position of each consumer inside the handler
  hitem,           \* argument item of each handler call (an entity id)
  hslice,          \* list(batch[:BATCH_SIZE]) taken by the flushing handler
  hworked,         \* local variable worked of each handler call
  \* --- the tables -------------------------------------------------------
  idStore,         \* table wikidataID
  langStore,       \* table wikidata
  failures,        \* number of bulk upserts that have failed so far
  \* --- history (not program state) --------------------------------------
  appended,        \* records appended to batch in the current run
  committed,       \* records committed to a table in the current run
  upserted,        \* per id, the OR of the flags of all committed upserts
  store_after_first_run   \* idStore when the first run of save_ids ended

stageVars == <<dump, stage_a_runs, script_b, phase, pcMain, main_worked,
               pending, batch, lock, hpc, hitem, hslice, hworked, idStore,
               langStore, failures, appended, committed, upserted,
               store_after_first_run>>

(***************************************************************************)
(* Part 3: state of the batch writer (AstraDBConnect) and the EmbedCache   *)
(***************************************************************************)
VARIABLES
  cache_on,        \* self.cache_on, fixed at Init
  doc_batch_buffer,\* self.doc_batch (a multiprocessing.Queue): documents
                   \* put() but not yet written to the pipe
  doc_batch_pipe,  \* self.doc_batch: documents in the pipe
  cache_rows,      \* the CacheEmbeddings table: per id, the stored column
  index_rows,      \* self.graph_store: per _id, the inserted vector
  pcWriter,        \* position of the calling process inside the writer
  docs,            \* local variable docs of push_batch
  vectors,         \* local variable vectors of push_batch
  loop_i,          \* rounds done of `for _ in range(self.batch_size)`
  adds,            \* number of add_document calls made so far
  writer_failures, \* number of failed embedder / index / cache calls so far
  \* --- history (not program state) --------------------------------------
  removed,         \* documents the current flush took from doc_batch, each
                   \* with what the cache returned for its id
  handed,          \* what the current flush handed to insert_many
  flush_failed,    \* the embedder or the index failed in the current flush
  embed_calls,     \* per id, how often its text was passed to the embedder
  cache_written    \* per id, the vector a flush embedded and then wrote
                   \* to the cache with add_bulk_cache (or NoVector)

writerVars == <<cache_on, doc_batch_buffer, doc_batch_pipe, cache_rows,
                index_rows, pcWriter, docs, vectors, loop_i, adds,
                writer_failures, removed, handed, flush_failed, embed_calls,
                cache_written>>

\* the committed writes of a store that is written to directly, in order
VARIABLES write_log

contractVars == <<write_log>>

\* one call of a method of WikidataTextifier: the method with its arguments,
\* and what the call returned
VARIABLES textifier_call, textifier_return

textVars == <<textifier_call, textifier_return>>

\* the prototype stage (docker/7_Create_Prototype/run.py): the main process
\* with its dataset and the shared work queue (feeder buffer and pipe), the
\* worker processes, each with the doc_batch queue of its own AstraDBConnect,
\* and the cache table and the index they share
VARIABLES
  dataset,          \* the items of the dataset, in order
  pcProto,          \* where the main process is
  put_i,            \* the next item the main process puts
  sentinels_put,    \* the None sentinels put so far
  work_buffer,      \* queue: put and not yet written to the pipe
  work_pipe,        \* queue: written to the pipe, what get() reads
  wpc,              \* where each worker is
  witem,            \* the item each worker is processing
  wchunk,           \* the chunk of the item each worker adds next
  wbuffer,          \* doc_batch of each worker: feeder buffer
  wpipe,            \* doc_batch of each worker: pipe
  wdocs,            \* docs of the push_batch call of each worker
  wloop,            \* rounds of the for loop of push_batch done
  wfrom,            \* the caller of the push_batch call of each worker
  proto_cache_rows, \* the cache table wikidata_prototype
  proto_index,      \* the ids of the documents in the index
  proto_failures,   \* failed embedding requests so far
  wtaken            \* history: what each worker took from the queue, in order

protoVars == <<dataset, pcProto, put_i, sentinels_put, work_buffer, work_pipe,
               wpc, witem, wchunk, wbuffer, wpipe, wdocs, wloop, wfrom,
               proto_cache_rows, proto_index, proto_failures, wtaken>>

vars == <<readerVars, stageVars, writerVars, contractVars, textVars, protoVars>>

\* the prototype stage while another part is studied: not started
ProtoIdle ==
  /\ dataset = <<>>
  /\ pcProto = "unstarted"
  /\ put_i = 1
  /\ sentinels_put = 0
  /\ work_buffer = <<>>
  /\ work_pipe = <<>>
  /\ wpc = <<>>
  /\ witem = <<>>
  /\ wchunk = <<>>
  /\ wbuffer = <<>>
  /\ wpipe = <<>>
  /\ wdocs = <<>>
  /\ wloop = <<>>
  /\ wfrom = <<>>
  /\ proto_cache_rows = <<>>
  /\ proto_index = {}
  /\ proto_failures = 0
  /\ wtaken = <<>>

\* the textifier while another part is studied: constructed, never called
TextIdle ==
  /\ textifier_call = [method |-> "none"]
  /\ textifier_return = [returned |-> "nothing"]


(***************************************************************************)
(* Lines of a dump file.  A line read from a text file is never the empty  *)
(* string (it holds at least its newline), so `if line:` in _consumer is   *)
(* always taken; what differs is what line_to_entity makes of the line:    *)
(*   "entity"  a JSON object, possibly followed by a comma                 *)
(*   "blank"   only characters of "[] ,\n" (the "[" and "]" lines)         *)
(*   "bad"     text that orjson.loads rejects                              *)
(***************************************************************************)
LineKinds == {"entity", "blank", "bad"}

RECURSIVE SeqsUpTo(_, _)
SeqsUpTo(S, n) ==
  IF n = 0 THEN {<<>>}
  ELSE LET shorter == SeqsUpTo(S, n - 1)
       IN  shorter \cup {Append(s, x) : s \in {t \in shorter : Len(t) = n - 1}, x \in S}

\* line_to_entity: strip "[] ,\n", reject the empty rest, JSON-decode;
\* the result is the entity (named by the line) or None.
line_to_entity(kind) ==
  IF kind = "blank" THEN None
  ELSE IF kind = "bad" THEN None
  ELSE "entity"

\* The exit test shared by _consumer and _reporter:
\*   self.finished.value == 1 and self.queue.empty()
\* evaluated left to right as two separate reads.
\* (a variant that leaves the flag out of the test)
FinishedIsSet_FlagIgnored(f) == f \in {0, 1}

FinishedIsSet(f) == f = 1

\* Queue.empty() is `not self._poll()`: it looks at the pipe only.
QueueEmpty == queue_pipe = <<>>

\* (a variant without a capacity)
QueueFull_Never == FALSE

\* Queue(maxsize): put() acquires a semaphore of maxsize permits that get()
\* releases, so the permits in use are the lines in buffer and pipe.
QueueFull == Len(queue_buffer) + Len(queue_pipe) >= QueueSize

\* `if max_iterations and iters >= max_iterations` (None and 0 are falsy)
ReachedMax(m, i) == m # NoneInt /\ m # 0 /\ i >= m

SupportedExtension(ext) == ext \in {"json", "gz", "bz2"}

\* the staged ingestion while only the reader is studied: nothing runs
StageIdle ==
  /\ dump = {}
  /\ stage_a_runs = 1
  /\ script_b = "save_entities"
  /\ phase = "end"
  /\ pcMain = "done"
  /\ main_worked = FALSE
  /\ pending = {}
  /\ batch = <<>>
  /\ lock = 0
  /\ hpc = [c \in Consumers |-> "idle"]
  /\ hitem = [c \in Consumers |-> None]
  /\ hslice = <<>>
  /\ hworked = [c \in Consumers |-> FALSE]
  /\ idStore = <<>>
  /\ langStore = <<>>
  /\ failures = 0
  /\ appended = {}
  /\ committed = {}
  /\ upserted = <<>>
  /\ store_after_first_run = <<>>

\* the batch writer while another part is studied: constructed, unused
WriterIdle ==
  /\ cache_on = TRUE
  /\ doc_batch_buffer = <<>>
  /\ doc_batch_pipe = <<>>
  /\ cache_rows = <<>>
  /\ index_rows = <<>>
  /\ pcWriter = "idle"
  /\ docs = <<>>
  /\ vectors = <<>>
  /\ loop_i = 0
  /\ adds = 0
  /\ writer_failures = 0
  /\ removed = {}
  /\ handed = {}
  /\ flush_failed = FALSE
  /\ embed_calls = <<>>
  /\ cache_written = <<>>

ReaderInit ==
  /\ StageIdle
  /\ WriterIdle
  /\ write_log = <<>>
  /\ TextIdle
  /\ ProtoIdle
  /\ file_lines \in SeqsUpTo(LineKinds, MaxLines)
  /\ extension \in {"json", "bz2", "txt"}
  /\ file_opens \in BOOLEAN
  /\ skiplines \in {0, 1}
  /\ max_iterations \in {NoneInt, 0, 1}
  /\ verbose \in BOOLEAN
  /\ queue_buffer = <<>>
  /\ queue_pipe = <<>>
  /\ finished = 0
  /\ iterations = 0
  /\ pcRun = "init"
  /\ pcProducer = "unstarted"
  /\ next_line = 1
  /\ iters = 0
  /\ pcConsumer = [c \in Consumers |-> "unstarted"]
  /\ line = [c \in Consumers |-> NoneInt]
  /\ pcReporter = "unstarted"
  /\ enqueued = {}
  /\ handled = [i \in 1..MaxLines + 1 |-> 0]

inputsUnchanged ==
  UNCHANGED <<file_lines, extension, file_opens, skiplines, max_iterations,
              verbose, stageVars, writerVars, contractVars, textVars,
              protoVars>>

(***************************************************************************)
(* run(): create and start the processes, then join them in order.         *)
(***************************************************************************)
RunStart ==
  /\ pcRun = "init"
  /\ pcRun' = "join_producer"
  /\ pcProducer' = "reset"
  /\ pcConsumer' = [c \in Consumers |-> "check_finished"]
  /\ pcReporter' = IF verbose THEN "sleep" ELSE "none"
  /\ inputsUnchanged
  /\ UNCHANGED <<queue_buffer, queue_pipe, finished, iterations, next_line,
                 iters, line, enqueued, handled>>

ProducerEnded == pcProducer \in {"exited", "raised"}

RunJoinProducer ==
  /\ pcRun = "join_producer"
  /\ ProducerEnded
  /\ pcRun' = "join_consumers"
  /\ inputsUnchanged
  /\ UNCHANGED <<queue_buffer, queue_pipe, finished, iterations, pcProducer,
                 next_line, iters, pcConsumer, line, pcReporter, enqueued, handled>>

RunJoinConsumers ==
  /\ pcRun = "join_consumers"
  /\ \A c \in Consumers : pcConsumer[c] = "exited"
  /\ pcRun' = "join_reporter"
  /\ inputsUnchanged
  /\ UNCHANGED <<queue_buffer, queue_pipe, finished, iterations, pcProducer,
                 next_line, iters, pcConsumer, line, pcReporter, enqueued, handled>>

RunJoinReporter ==
  /\ pcRun = "join_reporter"
  /\ pcReporter \in {"none", "exited"}
  /\ pcRun' = "returned"
  /\ inputsUnchanged
  /\ UNCHANGED <<queue_buffer, queue_pipe, finished, iterations, pcProducer,
                 next_line, iters, pcConsumer, line, pcReporter, enqueued, handled>>

(***************************************************************************)
(* _producer                                                               *)
(***************************************************************************)
\* with self.finished.get_lock(): self.finished.value = 0
ProducerReset ==
  /\ pcProducer = "reset"
  /\ finished' = 0
  /\ pcProducer' = "select"
  /\ inputsUnchanged
  /\ UNCHANGED <<queue_buffer, queue_pipe, iterations, pcRun, next_line, iters,
                 pcConsumer, line, pcReporter, enqueued, handled>>

\* iters = 0; choose the line generator by extension, or raise ValueError.
\* The generators are lazy: nothing is opened here.
ProducerSelect ==
  /\ pcProducer = "select"
  /\ iters' = 0
  /\ pcProducer' = IF SupportedExtension(extension) THEN "open" ELSE "raised"
  /\ inputsUnchanged
  /\ UNCHANGED <<queue_buffer, queue_pipe, finished, iterations, pcRun,
                 next_line, pcConsumer, line, pcReporter, enqueued, handled>>

\* First next() of the generator: open the file (an OSError propagates out
\* of _producer) and skip self.skiplines lines with readline().
ProducerOpen ==
  /\ pcProducer = "open"
  /\ IF file_opens
       THEN /\ pcProducer' = "loop"
            /\ next_line' = skiplines + 1
       ELSE /\ pcProducer' = "raised"
            /\ UNCHANGED next_line
  /\ inputsUnchanged
  /\ UNCHANGED <<queue_buffer, queue_pipe, finished, iterations, pcRun, iters,
                 pcConsumer, line, pcReporter, enqueued, handled>>

\* for line in lines_gen: self.queue.put(line); iters += 1;
\*     if max_iterations and iters >= max_iterations: break
\* put() blocks while the queue is full.
ProducerPut ==
  /\ pcProducer = "loop"
  /\ next_line <= Len(file_lines)
  /\ ~QueueFull
  /\ queue_buffer' = Append(queue_buffer, next_line)
  /\ enqueued' = enqueued \cup {next_line}
  /\ next_line' = next_line + 1
  /\ iters' = iters + 1
  /\ pcProducer' = IF ReachedMax(max_iterations, iters + 1) THEN "set_finished" ELSE "loop"
  /\ inputsUnchanged
  /\ UNCHANGED <<queue_pipe, finished, iterations, pcRun, pcConsumer, line,
                 pcReporter, handled>>

\* the generator is exhausted: leave the for loop
ProducerEndOfFile ==
  /\ pcProducer = "loop"
  /\ next_line > Len(file_lines)
  /\ pcProducer' = "set_finished"
  /\ inputsUnchanged
  /\ UNCHANGED <<queue_buffer, queue_pipe, finished, iterations, pcRun,
                 next_line, iters, pcConsumer, line, pcReporter, enqueued, handled>>

\* with self.finished.get_lock(): self.finished.value = 1
ProducerSetFinished ==
  /\ pcProducer = "set_finished"
  /\ finished' = 1
  /\ pcProducer' = "flush"
  /\ inputsUnchanged
  /\ UNCHANGED <<queue_buffer, queue_pipe, iterations, pcRun, next_line, iters,
                 pcConsumer, line, pcReporter, enqueued, handled>>

\* The producer process ends; a process that has put lines on a
\* multiprocessing.Queue joins the queue's feeder thread on exit, so it
\* ends only when the buffer has been written to the pipe.
ProducerExit ==
  /\ pcProducer = "flush"
  /\ queue_buffer = <<>>
  /\ pcProducer' = "exited"
  /\ inputsUnchanged
  /\ UNCHANGED <<queue_buffer, queue_pipe, finished, iterations, pcRun,
                 next_line, iters, pcConsumer, line, pcReporter, enqueued, handled>>

\* The feeder thread that Queue.put() starts in the producer process: it
\* moves the oldest buffered line into the pipe.
QueueFeed ==
  /\ queue_buffer # <<>>
  /\ queue_pipe' = Append(queue_pipe, Head(queue_buffer))
  /\ queue_buffer' = Tail(queue_buffer)
  /\ inputsUnchanged
  /\ UNCHANGED <<finished, iterations, pcRun, pcProducer, next_line, iters,
                 pcConsumer, line, pcReporter, enqueued, handled>>

(***************************************************************************)
(* _consumer                                                               *)
(***************************************************************************)
\* while True: if self.finished.value == 1 ...
ConsumerCheckFinished(c) ==
  /\ pcConsumer[c] = "check_finished"
  /\ pcConsumer' = [pcConsumer EXCEPT ![c] =
                      IF FinishedIsSet(finished) THEN "check_empty" ELSE "get"]
  /\ inputsUnchanged
  /\ UNCHANGED <<queue_buffer, queue_pipe, finished, iterations, pcRun,
                 pcProducer, next_line, iters, line, pcReporter, enqueued, handled>>

\* ... and self.queue.empty(): break
ConsumerCheckEmpty(c) ==
  /\ pcConsumer[c] = "check_empty"
  /\ pcConsumer' = [pcConsumer EXCEPT ![c] = IF QueueEmpty THEN "exited" ELSE "get"]
  /\ inputsUnchanged
  /\ UNCHANGED <<queue_buffer, queue_pipe, finished, iterations, pcRun,
                 pcProducer, next_line, iters, line, pcReporter, enqueued, handled>>

\* line = self.queue.get(timeout=1) returns the oldest line of the pipe
ConsumerGet(c) ==
  /\ pcConsumer[c] = "get"
  /\ queue_pipe # <<>>
  /\ line' = [line EXCEPT ![c] = Head(queue_pipe)]
  /\ queue_pipe' = Tail(queue_pipe)
  /\ pcConsumer' = [pcConsumer EXCEPT ![c] = "handle"]
  /\ inputsUnchanged
  /\ UNCHANGED <<queue_buffer, finished, iterations, pcRun, pcProducer,
                 next_line, iters, pcReporter, enqueued, handled>>

\* self.queue.get(timeout=1) raises queue.Empty after a second without a
\* line in the pipe: except Exception: continue
ConsumerGetTimeout(c) ==
  /\ pcConsumer[c] = "get"
  /\ queue_pipe = <<>>
  /\ pcConsumer' = [pcConsumer EXCEPT ![c] = "check_finished"]
  /\ inputsUnchanged
  /\ UNCHANGED <<queue_buffer, queue_pipe, finished, iterations, pcRun,
                 pcProducer, next_line, iters, line, pcReporter, enqueued, handled>>

\* if line: entity = self.line_to_entity(line)
\*          if entity is not None: handler_func(entity)
ConsumerHandle(c) ==
  /\ pcConsumer[c] = "handle"
  /\ handled' = IF line_to_entity(file_lines[line[c]]) # None
                  THEN [handled EXCEPT ![line[c]] = @ + 1]
                  ELSE handled
  /\ pcConsumer' = [pcConsumer EXCEPT ![c] = "count"]
  /\ inputsUnchanged
  /\ UNCHANGED <<queue_buffer, queue_pipe, finished, iterations, pcRun,
                 pcProducer, next_line, iters, line, pcReporter, enqueued>>

\* the increment placed under `if entity is not None`: a line that did not
\* parse is not counted
ConsumerCount_OnlyParsed(c) ==
  /\ pcConsumer[c] = "count"
  /\ iterations' = IF line_to_entity(file_lines[line[c]]) # None
                     THEN iterations + 1 ELSE iterations
  /\ line' = [line EXCEPT ![c] = NoneInt]
  /\ pcConsumer' = [pcConsumer EXCEPT ![c] = "check_finished"]
  /\ inputsUnchanged
  /\ UNCHANGED <<queue_buffer, queue_pipe, finished, pcRun, pcProducer,
                 next_line, iters, pcReporter, enqueued, handled>>

\* with self.iterations.get_lock(): self.iterations.value += 1
ConsumerCount(c) ==
  /\ pcConsumer[c] = "count"
  /\ iterations' = iterations + 1
  /\ line' = [line EXCEPT ![c] = NoneInt]
  /\ pcConsumer' = [pcConsumer EXCEPT ![c] = "check_finished"]
  /\ inputsUnchanged
  /\ UNCHANGED <<queue_buffer, queue_pipe, finished, pcRun, pcProducer,
                 next_line, iters, pcReporter, enqueued, handled>>

(***************************************************************************)
(* _reporter (its progress bar is display only and is not modelled)        *)
(***************************************************************************)
\* time.sleep(print_per_s); read self.iterations.value under its lock;
\* if self.finished.value == 1 ...
ReporterCheckFinished ==
  /\ pcReporter = "sleep"
  /\ pcReporter' = IF FinishedIsSet(finished) THEN "check_empty" ELSE "update"
  /\ inputsUnchanged
  /\ UNCHANGED <<queue_buffer, queue_pipe, finished, iterations, pcRun,
                 pcProducer, next_line, iters, pcConsumer, line, enqueued, handled>>

\* ... and self.queue.empty(): break
ReporterCheckEmpty ==
  /\ pcReporter = "check_empty"
  /\ pcReporter' = IF QueueEmpty THEN "exited" ELSE "update"
  /\ inputsUnchanged
  /\ UNCHANGED <<queue_buffer, queue_pipe, finished, iterations, pcRun,
                 pcProducer, next_line, iters, pcConsumer, line, enqueued, handled>>

\* pbar.set_postfix_str(...); pbar.update(...); next round of the loop
ReporterUpdate ==
  /\ pcReporter = "update"
  /\ pcReporter' = "sleep"
  /\ inputsUnchanged
  /\ UNCHANGED <<queue_buffer, queue_pipe, finished, iterations, pcRun,
                 pcProducer, next_line, iters, pcConsumer, line, enqueued, handled>>

ProducerStep ==
  \/ ProducerReset
  \/ ProducerSelect
  \/ ProducerOpen
  \/ ProducerPut
  \/ ProducerEndOfFile
  \/ ProducerSetFinished
  \/ ProducerExit

ConsumerStep(c) ==
  \/ ConsumerCheckFinished(c)
  \/ ConsumerCheckEmpty(c)
  \/ ConsumerGet(c)
  \/ ConsumerGetTimeout(c)
  \/ ConsumerHandle(c)
  \/ ConsumerCount(c)

ReporterStep ==
  \/ ReporterCheckFinished
  \/ ReporterCheckEmpty
  \/ ReporterUpdate

RunStep ==
  \/ RunStart
  \/ RunJoinProducer
  \/ RunJoinConsumers
  \/ RunJoinReporter

ReaderNext ==
  \/ RunStep
  \/ ProducerStep
  \/ QueueFeed
  \/ \E c \in Consumers : ConsumerStep(c)
  \/ ReporterStep

SpecReader == ReaderInit /\ [][ReaderNext]_vars

\* Every process is scheduled again and again; the feeder thread too.
FairSpecReader ==
  /\ SpecReader
  /\ WF_vars(RunStep)
  /\ WF_vars(ProducerStep)
  /\ WF_vars(QueueFeed)
  /\ \A c \in Consumers : WF_vars(ConsumerStep(c))
  /\ WF_vars(ReporterStep)

\* the reader while another part is studied: constructed, run() not called
ReaderIdle ==
  /\ file_lines = <<>>
  /\ extension = "json"
  /\ file_opens = TRUE
  /\ skiplines = 0
  /\ max_iterations = NoneInt
  /\ verbose = FALSE
  /\ queue_buffer = <<>>
  /\ queue_pipe = <<>>
  /\ finished = 0
  /\ iterations = 0
  /\ pcRun = "init"
  /\ pcProducer = "unstarted"
  /\ next_line = 1
  /\ iters = 0
  /\ pcConsumer = [c \in Consumers |-> "unstarted"]
  /\ line = [c \in Consumers |-> NoneInt]
  /\ pcReporter = "unstarted"
  /\ enqueued = {}
  /\ handled = [i \in 1..MaxLines + 1 |-> 0]

(***************************************************************************)
(* Claims about the dump reader                                            *)
(***************************************************************************)
RunReturned == pcRun = "returned"

ProducerFailed == pcProducer = "raised"

FileReadable == SupportedExtension(extension) /\ file_opens

AllWorkersEnded ==
  /\ ProducerEnded
  /\ \A c \in Consumers : pcConsumer[c] = "exited"
  /\ pcReporter \in {"none", "exited"}

\* C1: when run has returned, handler_func has been called exactly once for
\* every line the producer put on the queue that parses to an entity.
C1_EveryEnqueuedEntityHandledOnce ==
  RunReturned =>
    \A i \in enqueued :
      line_to_entity(file_lines[i]) # None => handled[i] = 1

\* C2: for a dump file that can be read, run eventually returns, and when it
\* has returned all workers have ended, the done flag is set and the queue
\* is empty.
C2_RunReturnsWithQueueDrained ==
  FileReadable =>
    /\ <>RunReturned
    /\ [](RunReturned =>
            AllWorkersEnded /\ finished = 1 /\ queue_buffer = <<>> /\ QueueEmpty)

\* C3: if the producer fails before it has put anything on the queue, run
\* still returns.
C3_RunReturnsAfterProducerFailure ==
  (ProducerFailed /\ enqueued = {}) ~> RunReturned
\* C4: the done flag goes from unset to set once, by the producer's final
\* assignment and with no enqueue after it; a consumer exits only on seeing
\* the flag set and then the queue empty.
C4_DoneFlagSetOnceThenConsumersExit ==
  [][ /\ (finished = 1 => finished' = 1)
      /\ (finished = 0 /\ finished' = 1 =>
             pcProducer = "set_finished" /\ pcProducer' = "flush")
      /\ (finished = 1 => enqueued' = enqueued)
      /\ \A c \in Consumers :
            (pcConsumer[c] # "exited" /\ pcConsumer'[c] = "exited") =>
              /\ pcConsumer[c] = "check_empty"
              /\ finished = 1
              /\ QueueEmpty
    ]_vars

\* a consumer has exited after the producer enqueued lines and set the flag
C4_Witness ==
  /\ finished = 1
  /\ enqueued # {}
  /\ \E c \in Consumers : pcConsumer[c] = "exited"

(***************************************************************************)
(* Part 2: the staged ingestion scripts and their tables                   *)
(***************************************************************************)
\* BATCH_SIZE / PUSH_SIZE of the stage scripts (an environment setting)
BATCH_SIZE == 2
\* how many bulk upserts may fail in one behaviour
MaxFailures == 1

LANGUAGE == "en"

(***************************************************************************)
(* Entities of a dump.  A snak carries a datatype and, when it has a       *)
(* datavalue, the id it names (wikibase-item, wikibase-property) or its    *)
(* unit (quantity); a unit is "1" or an entity URI, kept as the parts      *)
(* before and after its last "/".                                          *)
(***************************************************************************)
NoUnit == <<"1">>

ItemSnak(id) ==
  [snaktype |-> "value", datatype |-> "wikibase-item", has_datavalue |-> TRUE,
   id |-> id, unit |-> NoUnit]

PropertySnak(id) ==
  [snaktype |-> "value", datatype |-> "wikibase-property", has_datavalue |-> TRUE,
   id |-> id, unit |-> NoUnit]

QuantitySnak(unit) ==
  [snaktype |-> "value", datatype |-> "quantity", has_datavalue |-> TRUE,
   id |-> "", unit |-> unit]

NoStrings == [l \in {} |-> ""]

\* scenario S1 of the specification
EntityQ1 ==
  [id |-> "Q1",
   has_sitelinks |-> TRUE, sitelinks |-> {"enwiki"},
   labels |-> [l \in {"en"} |-> "Universe"],
   descriptions |-> [l \in {"en"} |-> "totality of space and time"],
   aliases |-> [l \in {} |-> {}],
   has_claims |-> TRUE, claims |-> <<>>]

\* scenario S2 of the specification
EntityQ2 ==
  [id |-> "Q2",
   has_sitelinks |-> TRUE, sitelinks |-> {},
   labels |-> NoStrings,
   descriptions |-> NoStrings,
   aliases |-> [l \in {} |-> {}],
   has_claims |-> FALSE, claims |-> <<>>]

\* an entity with a multilingual label whose claims name Q1, a unit and
\* properties, one of them in a deprecated statement
EntityQ3 ==
  [id |-> "Q3",
   has_sitelinks |-> TRUE, sitelinks |-> {"enwiki", "dewiki"},
   labels |-> [l \in {"mul"} |-> "Douglas Adams"],
   descriptions |-> [l \in {"en"} |-> "English author"],
   aliases |-> [l \in {"en"} |-> {"DNA"}],
   has_claims |-> TRUE,
   claims |-> <<
     [pid |-> "P31",
      statements |-> <<
        [type |-> "statement", rank |-> "normal",
         has_mainsnak |-> TRUE, mainsnak |-> ItemSnak("Q1"),
         has_qualifiers |-> TRUE,
         qualifiers |-> <<[pid |-> "P2048",
                           snaks |-> <<QuantitySnak(<<"http://www.wikidata.org/entity", "Q11573">>)>>]>>],
        [type |-> "statement", rank |-> "deprecated",
         has_mainsnak |-> TRUE, mainsnak |-> PropertySnak("P31"),
         has_qualifiers |-> FALSE, qualifiers |-> <<>>]
      >>]
   >>]

EntityPool == {EntityQ1, EntityQ2, EntityQ3}

EntityIds == {e.id : e \in EntityPool}

Entity(id) == CHOOSE e \in EntityPool : e.id = id

\* every id a table can hold
IdUniverse == {"Q1", "Q2", "Q3", "P31", "P2048", "Q11573"}

(***************************************************************************)
(* WikidataID / WikidataLang: predicates and extraction                    *)
(***************************************************************************)
\* is_in_wikipedia(item, language)
is_in_wikipedia(item) ==
  /\ item.has_sitelinks
  /\ (LANGUAGE \o "wiki") \in item.sitelinks
  /\ (LANGUAGE \in DOMAIN item.labels \/ "mul" \in DOMAIN item.labels)
  /\ (LANGUAGE \in DOMAIN item.descriptions \/ "mul" \in DOMAIN item.descriptions)

\* (a variant that marks every record as in Wikipedia)
IdRecord_AllInWikipedia(id, in_wp, is_prop) ==
  [id |-> id, in_wikipedia |-> TRUE, is_property |-> is_prop]

IdRecord(id, in_wp, is_prop) ==
  [id |-> id, in_wikipedia |-> in_wp, is_property |-> is_prop]

\* value['unit'].rsplit('/', 1)[1]
UnitId(unit) == unit[Len(unit)]

\* the record a snak with a datavalue contributes, as a sequence of 0 or 1
SnakIds(snak) ==
  IF snak.datatype = "wikibase-item" THEN <<IdRecord(snak.id, FALSE, FALSE)>>
  ELSE IF snak.datatype = "wikibase-property" THEN <<IdRecord(snak.id, FALSE, TRUE)>>
  ELSE IF snak.datatype = "quantity" /\ snak.unit # NoUnit
    THEN <<IdRecord(UnitId(snak.unit), FALSE, FALSE)>>
  ELSE <<>>

RECURSIVE QualifierSnaksIds(_)
QualifierSnaksIds(snaks) ==
  IF snaks = <<>> THEN <<>>
  ELSE (IF Head(snaks).has_datavalue THEN SnakIds(Head(snaks)) ELSE <<>>)
       \o QualifierSnaksIds(Tail(snaks))

RECURSIVE QualifiersIds(_)
QualifiersIds(quals) ==
  IF quals = <<>> THEN <<>>
  ELSE <<IdRecord(Head(quals).pid, FALSE, TRUE)>>
       \o QualifierSnaksIds(Head(quals).snaks)
       \o QualifiersIds(Tail(quals))

StatementIds(c) ==
  (IF c.has_mainsnak /\ c.mainsnak.has_datavalue THEN SnakIds(c.mainsnak) ELSE <<>>)
  \o (IF c.has_qualifiers THEN QualifiersIds(c.qualifiers) ELSE <<>>)

RECURSIVE StatementsIds(_)
StatementsIds(stmts) ==
  IF stmts = <<>> THEN <<>>
  ELSE StatementIds(Head(stmts)) \o StatementsIds(Tail(stmts))

RECURSIVE ClaimsIds(_)
ClaimsIds(claims) ==
  IF claims = <<>> THEN <<>>
  ELSE <<IdRecord(Head(claims).pid, FALSE, TRUE)>>
       \o StatementsIds(Head(claims).statements)
       \o ClaimsIds(Tail(claims))

\* extract_entity_ids(item, language)
extract_entity_ids(item) ==
  <<IdRecord(item.id, is_in_wikipedia(item), FALSE)>>
  \o ClaimsIds(IF item.has_claims THEN item.claims ELSE <<>>)

\* _get_claims(item): statements that are not deprecated, by property;
\* properties left without a statement are dropped
RECURSIVE KeptStatements(_)
KeptStatements(stmts) ==
  IF stmts = <<>> THEN <<>>
  ELSE (IF Head(stmts).type = "statement" /\ Head(stmts).rank # "deprecated"
          THEN <<[mainsnak |-> Head(stmts).mainsnak,
                  qualifiers |-> Head(stmts).qualifiers,
                  rank |-> Head(stmts).rank]>>
          ELSE <<>>)
       \o KeptStatements(Tail(stmts))

RECURSIVE get_claims(_)
get_claims(claims) ==
  IF claims = <<>> THEN <<>>
  ELSE (IF KeptStatements(Head(claims).statements) # <<>>
          THEN <<[pid |-> Head(claims).pid,
                  statements |-> KeptStatements(Head(claims).statements)]>>
          ELSE <<>>)
       \o get_claims(Tail(claims))

\* _get_aliases(item, language): the values under language and under "mul"
get_aliases(item) ==
  (IF LANGUAGE \in DOMAIN item.aliases THEN item.aliases[LANGUAGE] ELSE {})
  \cup (IF "mul" \in DOMAIN item.aliases THEN item.aliases["mul"] ELSE {})

LangValue(values) ==
  IF LANGUAGE \in DOMAIN values THEN values[LANGUAGE]
  ELSE IF "mul" \in DOMAIN values THEN values["mul"]
  ELSE ""

\* normalise_item(item, language)
normalise_item(item) ==
  [id |-> item.id,
   label |-> LangValue(item.labels),
   description |-> LangValue(item.descriptions),
   aliases |-> get_aliases(item),
   claims |-> get_claims(IF item.has_claims THEN item.claims ELSE <<>>)]

(***************************************************************************)
(* The tables                                                              *)
(***************************************************************************)
NoIdRow == [present |-> FALSE, in_wikipedia |-> FALSE, is_property |-> FALSE]

EmptyIdStore == [id \in IdUniverse |-> NoIdRow]

NoLangRow == [present |-> FALSE, label |-> "", description |-> "",
              aliases |-> {}, claims |-> <<>>]

EmptyLangStore == [id \in IdUniverse |-> NoLangRow]

\* (a variant whose conflict clause overwrites the flags)
UpsertIdRow_Overwrite(store, r) ==
  [store EXCEPT ![r.id] = [present |-> TRUE,
                           in_wikipedia |-> r.in_wikipedia,
                           is_property |-> r.is_property]]

\* INSERT INTO wikidataID ... ON CONFLICT(id) DO UPDATE SET
\*   in_wikipedia = CASE WHEN excluded.in_wikipedia = TRUE
\*                       THEN excluded.in_wikipedia ELSE wikidataID.in_wikipedia END,
\*   is_property likewise
UpsertIdRow(store, r) ==
  IF ~store[r.id].present
    THEN [store EXCEPT ![r.id] = [present |-> TRUE,
                                  in_wikipedia |-> r.in_wikipedia,
                                  is_property |-> r.is_property]]
    ELSE [store EXCEPT
            ![r.id].in_wikipedia = IF r.in_wikipedia = TRUE THEN r.in_wikipedia ELSE @,
            ![r.id].is_property = IF r.is_property = TRUE THEN r.is_property ELSE @]

\* WikidataID.add_bulk_ids(data) when the transaction commits: the rows of
\* data are applied in order
RECURSIVE add_bulk_ids(_, _)
add_bulk_ids(store, data) ==
  IF data = <<>> THEN store
  ELSE add_bulk_ids(UpsertIdRow(store, Head(data)), Tail(data))

\* (a variant whose conflict clause replaces the row)
InsertLangRow_Replace(store, r) ==
  [store EXCEPT ![r.id] = [present |-> TRUE, label |-> r.label,
                           description |-> r.description,
                           aliases |-> r.aliases, claims |-> r.claims]]

\* INSERT INTO wikidata ... ON CONFLICT(id) DO NOTHING
InsertLangRow(store, r) ==
  IF store[r.id].present THEN store
  ELSE [store EXCEPT ![r.id] = [present |-> TRUE, label |-> r.label,
                                description |-> r.description,
                                aliases |-> r.aliases, claims |-> r.claims]]

\* WikidataEntity.add_bulk_entities / WikidataLang.add_bulk_entities when
\* the transaction commits
RECURSIVE add_bulk_entities(_, _)
add_bulk_entities(store, data) ==
  IF data = <<>> THEN store
  ELSE add_bulk_entities(InsertLangRow(store, Head(data)), Tail(data))

\* (a variant that finds a row for every id)
get_id_AlwaysFound(store, id) ==
  [present |-> TRUE, in_wikipedia |-> FALSE, is_property |-> FALSE]

\* WikidataID.get_id(id): the row, or None
get_id(store, id) == IF store[id].present THEN store[id] ELSE NoIdRow

(***************************************************************************)
(* The stage scripts.  The reader hands every entity of the dump to one    *)
(* handler call; with the multiprocessing reader the calls run in the      *)
(* consumer processes, with the asyncio reader that save_entities imports  *)
(* they run one after the other in the main process.                       *)
(***************************************************************************)
CurrentScript == IF phase \in {"A1", "A2"} THEN "save_ids" ELSE script_b

HandlerProcesses == IF CurrentScript = "save_entities" THEN {1} ELSE Consumers

\* the test that guards the body of the handler
\*   save_ids:            (item is not None) and is_in_wikipedia(item)
\*   save_entities:       (item is not None) and WikidataID.get_id(item['id'])
\*   save_items_per_lang: `if item is not None: return` leaves at once
Admits(scr, item, ids) ==
  IF scr = "save_ids" THEN is_in_wikipedia(item)
  ELSE IF scr = "save_entities" THEN get_id(ids, item.id).present
  ELSE FALSE

\* what the handler adds to the shared list
\*   save_ids:      bulk_ids.extend(extract_entity_ids(item))
\*   stage B:       data_batch.append(normalise_item(item))
HandlerRecords(scr, item) ==
  IF scr = "save_ids" THEN extract_entity_ids(item) ELSE <<normalise_item(item)>>

Range(f) == {f[i] : i \in DOMAIN f}

\* del l[:n]
DropFirst(l, n) == IF Len(l) <= n THEN <<>> ELSE SubSeq(l, n + 1, Len(l))

\* (a variant that deletes the slice whether or not the upsert worked)
AfterUpsert_AlwaysDelete(worked, l, n) == DropFirst(l, n)

\* if worked: del bulk_ids[:BATCH_SIZE]
AfterUpsert(worked, l, n) == IF worked THEN DropFirst(l, n) ELSE l

\* the final loop after a successful upsert of the whole list
\*   save_ids, save_entities: bulk_ids[:] = []
\*   save_items_per_lang:     del data_batch[:PUSH_SIZE]
AfterFinalUpsert(scr, l) ==
  IF scr = "save_items_per_lang" THEN DropFirst(l, BATCH_SIZE) ELSE <<>>

\* the OR of the flags of the rows of data, per id, added to u
OrOfUpserts(u, data) ==
  [id \in IdUniverse |->
     [seen |-> u[id].seen \/ \E i \in DOMAIN data : data[i].id = id,
      in_wikipedia |-> u[id].in_wikipedia
                       \/ \E i \in DOMAIN data : data[i].id = id /\ data[i].in_wikipedia,
      is_property |-> u[id].is_property
                       \/ \E i \in DOMAIN data : data[i].id = id /\ data[i].is_property]]

\* a bulk upsert of data: it commits (ok) or rolls back and reports failure
BulkUpsert(data, ok) ==
  /\ ok \in BOOLEAN
  /\ ~ok => failures < MaxFailures
  /\ failures' = IF ok THEN failures ELSE failures + 1
  /\ IF ~ok
       THEN UNCHANGED <<idStore, langStore, upserted, committed>>
       ELSE /\ committed' = committed \cup Range(data)
            /\ IF CurrentScript = "save_ids"
                 THEN /\ idStore' = add_bulk_ids(idStore, data)
                      /\ upserted' = OrOfUpserts(upserted, data)
                      /\ UNCHANGED langStore
                 ELSE /\ langStore' = add_bulk_entities(langStore, data)
                      /\ UNCHANGED <<idStore, upserted>>

StageInit ==
  /\ ReaderIdle
  /\ WriterIdle
  /\ write_log = <<>>
  /\ TextIdle
  /\ ProtoIdle
  /\ dump \in SUBSET EntityIds
  /\ stage_a_runs \in {1, 2}
  /\ script_b \in {"save_entities", "save_items_per_lang"}
  /\ phase = "A1"
  /\ pcMain = "run"
  /\ main_worked = FALSE
  /\ pending = dump
  /\ batch = <<>>
  /\ lock = 0
  /\ hpc = [c \in Consumers |-> "idle"]
  /\ hitem = [c \in Consumers |-> None]
  /\ hslice = <<>>
  /\ hworked = [c \in Consumers |-> FALSE]
  /\ idStore = EmptyIdStore
  /\ langStore = EmptyLangStore
  /\ failures = 0
  /\ appended = {}
  /\ committed = {}
  /\ upserted = [id \in IdUniverse |->
                   [seen |-> FALSE, in_wikipedia |-> FALSE, is_property |-> FALSE]]
  /\ store_after_first_run = EmptyIdStore

stageInputsUnchanged ==
  UNCHANGED <<readerVars, writerVars, contractVars, textVars, protoVars, dump,
              stage_a_runs,
              script_b>>

\* a consumer parsed an entity and calls the handler with it
HandlerCall(c) ==
  /\ pcMain = "run"
  /\ c \in HandlerProcesses
  /\ hpc[c] = "idle"
  /\ \E e \in pending :
       /\ pending' = pending \ {e}
       /\ hitem' = [hitem EXCEPT ![c] = e]
  /\ hpc' = [hpc EXCEPT ![c] = "admit"]
  /\ stageInputsUnchanged
  /\ UNCHANGED <<phase, pcMain, main_worked, batch, lock, hslice, hworked,
                 idStore, langStore, failures, appended, committed, upserted,
                 store_after_first_run>>

\* the guard of the handler and the extend / append to the shared list
HandlerAppend(c) ==
  /\ hpc[c] = "admit"
  /\ IF Admits(CurrentScript, Entity(hitem[c]), idStore)
       THEN /\ batch' = batch \o HandlerRecords(CurrentScript, Entity(hitem[c]))
            /\ appended' = appended \cup Range(HandlerRecords(CurrentScript, Entity(hitem[c])))
            /\ hpc' = [hpc EXCEPT ![c] = "lock"]
            /\ UNCHANGED hitem
       ELSE /\ hpc' = [hpc EXCEPT ![c] = "idle"]
            /\ hitem' = [hitem EXCEPT ![c] = None]
            /\ UNCHANGED <<batch, appended>>
  /\ stageInputsUnchanged
  /\ UNCHANGED <<phase, pcMain, main_worked, pending, lock, hslice, hworked,
                 idStore, langStore, failures, committed, upserted,
                 store_after_first_run>>

\* the with block entered without waiting for the lock
HandlerLock_NoWait(c) ==
  /\ hpc[c] = "lock"
  /\ lock' = c
  /\ hpc' = [hpc EXCEPT ![c] = "check"]
  /\ stageInputsUnchanged
  /\ UNCHANGED <<phase, pcMain, main_worked, pending, batch, hitem, hslice,
                 hworked, idStore, langStore, failures, appended, committed,
                 upserted, store_after_first_run>>

\* with sqlitDBlock: (blocks while another process holds the lock)
HandlerLock(c) ==
  /\ hpc[c] = "lock"
  /\ lock = 0
  /\ lock' = c
  /\ hpc' = [hpc EXCEPT ![c] = "check"]
  /\ stageInputsUnchanged
  /\ UNCHANGED <<phase, pcMain, main_worked, pending, batch, hitem, hslice,
                 hworked, idStore, langStore, failures, appended, committed,
                 upserted, store_after_first_run>>

\* if len(bulk_ids) > BATCH_SIZE: take list(bulk_ids[:BATCH_SIZE]);
\* otherwise leave the with block and return
HandlerCheck(c) ==
  /\ hpc[c] = "check"
  /\ IF Len(batch) > BATCH_SIZE
       THEN /\ hslice' = SubSeq(batch, 1, BATCH_SIZE)
            /\ hpc' = [hpc EXCEPT ![c] = "upsert"]
            /\ UNCHANGED <<lock, hitem>>
       ELSE /\ lock' = 0
            /\ hpc' = [hpc EXCEPT ![c] = "idle"]
            /\ hitem' = [hitem EXCEPT ![c] = None]
            /\ UNCHANGED hslice
  /\ stageInputsUnchanged
  /\ UNCHANGED <<phase, pcMain, main_worked, pending, batch, hworked, idStore,
                 langStore, failures, appended, committed, upserted,
                 store_after_first_run>>

\* worked = add_bulk_ids(...) / add_bulk_entities(...)
HandlerUpsert(c) ==
  /\ hpc[c] = "upsert"
  /\ \E ok \in BOOLEAN :
       /\ BulkUpsert(hslice, ok)
       /\ hworked' = [hworked EXCEPT ![c] = ok]
  /\ hpc' = [hpc EXCEPT ![c] = "after"]
  /\ stageInputsUnchanged
  /\ UNCHANGED <<phase, pcMain, main_worked, pending, batch, lock, hitem,
                 hslice, appended, store_after_first_run>>

\* if worked: del bulk_ids[:BATCH_SIZE]; leave the with block and return
HandlerAfter(c) ==
  /\ hpc[c] = "after"
  /\ batch' = AfterUpsert(hworked[c], batch, BATCH_SIZE)
  /\ lock' = 0
  /\ hslice' = <<>>
  /\ hworked' = [hworked EXCEPT ![c] = FALSE]
  /\ hitem' = [hitem EXCEPT ![c] = None]
  /\ hpc' = [hpc EXCEPT ![c] = "idle"]
  /\ stageInputsUnchanged
  /\ UNCHANGED <<phase, pcMain, main_worked, pending, idStore, langStore,
                 failures, appended, committed, upserted, store_after_first_run>>

\* wikidata.run(...) returns: every entity was handed over and every
\* handler call has returned
ReaderReturns ==
  /\ pcMain = "run"
  /\ pending = {}
  /\ \A c \in Consumers : hpc[c] = "idle"
  /\ pcMain' = "final"
  /\ stageInputsUnchanged
  /\ UNCHANGED <<phase, main_worked, pending, batch, lock, hpc, hitem, hslice,
                 hworked, idStore, langStore, failures, appended, committed,
                 upserted, store_after_first_run>>

\* while len(bulk_ids) > 0: worked = add_bulk_ids(list(bulk_ids))
FinalUpsert ==
  /\ pcMain = "final"
  /\ Len(batch) > 0
  /\ \E ok \in BOOLEAN :
       /\ BulkUpsert(batch, ok)
       /\ main_worked' = ok
  /\ pcMain' = "final_after"
  /\ stageInputsUnchanged
  /\ UNCHANGED <<phase, pending, batch, lock, hpc, hitem, hslice, hworked,
                 appended, store_after_first_run>>

\* if worked: empty the list, else: sleep; then test the loop again
FinalAfter ==
  /\ pcMain = "final_after"
  /\ batch' = IF main_worked THEN AfterFinalUpsert(CurrentScript, batch) ELSE batch
  /\ main_worked' = FALSE
  /\ pcMain' = "final"
  /\ stageInputsUnchanged
  /\ UNCHANGED <<phase, pending, lock, hpc, hitem, hslice, hworked, idStore,
                 langStore, failures, appended, committed, upserted,
                 store_after_first_run>>

\* the final loop ends: the script is finished
FinalDone ==
  /\ pcMain = "final"
  /\ Len(batch) = 0
  /\ pcMain' = "done"
  /\ stageInputsUnchanged
  /\ UNCHANGED <<phase, main_worked, pending, batch, lock, hpc, hitem, hslice,
                 hworked, idStore, langStore, failures, appended, committed,
                 upserted, store_after_first_run>>

NextPhase(ph) ==
  IF ph = "A1" THEN (IF stage_a_runs = 2 THEN "A2" ELSE "B")
  ELSE IF ph = "A2" THEN "B"
  ELSE "end"

\* the next script of the pipeline is started on the same dump, with a new
\* Manager().list()
StartNextScript ==
  /\ pcMain = "done"
  /\ phase # "end"
  /\ phase' = NextPhase(phase)
  /\ store_after_first_run' = IF phase = "A1" THEN idStore ELSE store_after_first_run
  /\ IF NextPhase(phase) = "end"
       THEN UNCHANGED <<pcMain, pending, appended, committed>>
       ELSE /\ pcMain' = "run"
            /\ pending' = dump
            /\ appended' = {}
            /\ committed' = {}
  /\ stageInputsUnchanged
  /\ UNCHANGED <<main_worked, batch, lock, hpc, hitem, hslice, hworked,
                 idStore, langStore, failures, upserted>>

HandlerStep(c) ==
  \/ HandlerCall(c)
  \/ HandlerAppend(c)
  \/ HandlerLock(c)
  \/ HandlerCheck(c)
  \/ HandlerUpsert(c)
  \/ HandlerAfter(c)

StageNext ==
  \/ \E c \in Consumers : HandlerStep(c)
  \/ ReaderReturns
  \/ FinalUpsert
  \/ FinalAfter
  \/ FinalDone
  \/ StartNextScript

SpecStage == StageInit /\ [][StageNext]_vars

(***************************************************************************)
(* Claims about the stage scripts and the IdStore                          *)
(***************************************************************************)
\* C5: after every step the flags stored for an id are the OR of the flags
\* of all upserts committed for that id, and no step turns a stored TRUE
\* flag into FALSE.
C5_FlagsAreOrOfUpserts ==
  [][ \A id \in IdUniverse :
        /\ idStore'[id].present = upserted'[id].seen
        /\ idStore'[id].present =>
             /\ idStore'[id].in_wikipedia = upserted'[id].in_wikipedia
             /\ idStore'[id].is_property = upserted'[id].is_property
        /\ idStore[id].present => idStore'[id].present
        /\ (idStore[id].present /\ idStore[id].in_wikipedia) => idStore'[id].in_wikipedia
        /\ (idStore[id].present /\ idStore[id].is_property) => idStore'[id].is_property
    ]_vars

\* Q1 was upserted both with in_wikipedia TRUE (its own record) and FALSE
\* (as the value of a claim of Q3), and P31 twice in one batch
C5_Witness ==
  /\ phase = "A1"
  /\ IdRecord("Q1", TRUE, FALSE) \in committed
  /\ IdRecord("Q1", FALSE, FALSE) \in committed
  /\ idStore["Q1"].in_wikipedia
  /\ idStore["P31"].is_property

StageATwiceDone ==
  /\ stage_a_runs = 2
  /\ \/ phase = "A2" /\ pcMain = "done"
     \/ phase \in {"B", "end"}

C7_ResidualBatchFlushed ==
  [][ /\ pcMain' = "done" => (batch' = <<>> /\ appended' \subseteq committed')
      /\ Len(batch') < Len(batch) =>
           \/ \E c \in Consumers : hpc[c] = "after" /\ hworked[c]
           \/ pcMain = "final_after" /\ main_worked
    ]_vars

\* a script finished after an upsert failed and records were appended
C7_Witness ==
  /\ phase = "A1"
  /\ pcMain = "done"
  /\ failures > 0
  /\ appended # {}
  /\ appended \subseteq committed

(***************************************************************************)
(* Part 3: the batch writer AstraDBConnect and the EmbedCache              *)
(***************************************************************************)
\* self.batch_size of the writer
WriterBatchSize == 2
\* how many add_document calls one behaviour makes
MaxAdds == 3
\* embedding_dim, the length of a vector
Dim == 2
\* how many embedder / index / cache calls may fail in one behaviour
MaxWriterFailures == 1

\* the documents a caller adds: id "<QID>_<Language>_<ChunkID>" and text
DocPool ==
  {[id |-> "Q1_en_1", content |-> "text1"],
   [id |-> "Q1_en_2", content |-> "text2"]}

DocIds == {d.id : d \in DocPool}

\* Python's None where the other values are vectors
NoVector == <<>>

\* Values are integers; the ones a 32-bit float holds exactly are the even
\* ones, and the conversion to float32 rounds to them.
F32(x) == 2 * (x \div 2)

\* self.embeddings.embed_documents(texts): one float32 vector per text
Embed(content) ==
  [i \in 1..Dim |-> IF content = "text1" THEN 2 * i ELSE 2 * i + 10]

\* a Python list of floats, and the str that json.dumps makes of it
PyList(vec) == [kind |-> "list", vec |-> vec]
json_dumps(vec) == [kind |-> "str", vec |-> vec]

NullColumn == [null |-> TRUE, nbytes |-> 0, vec |-> <<>>]

\* EmbeddingType.process_bind_param(value): a list becomes the Base64 text
\* of its float32 bytes (4 per component), anything else becomes NULL
process_bind_param(value) ==
  IF value.kind = "list"
    THEN [null |-> FALSE, nbytes |-> 4 * Len(value.vec),
          vec |-> [i \in 1..Len(value.vec) |-> F32(value.vec[i])]]
    ELSE NullColumn

\* EmbeddingType.process_result_value(value): NULL gives None
process_result_value(column) ==
  IF column.null THEN NoVector ELSE column.vec

NoCacheRow == [present |-> FALSE, embedding |-> NullColumn]

\* CacheEmbeddings.get_cache(id): the embedding of the row, or None
get_cache(rows, id) ==
  IF rows[id].present THEN process_result_value(rows[id].embedding) ELSE NoVector

\* (a variant that never finds a cached embedding)
get_cached_embedding_AlwaysMiss(on, rows, id) == NoVector

\* AstraDBConnect._get_cached_embedding(id)
get_cached_embedding(on, rows, id) ==
  IF on THEN get_cache(rows, id) ELSE NoVector

\* INSERT INTO <table> (id, embedding) ... ON CONFLICT(id) DO NOTHING
InsertCacheRow(rows, r) ==
  IF rows[r.id].present THEN rows
  ELSE [rows EXCEPT ![r.id] = [present |-> TRUE, embedding |-> r.embedding]]

RECURSIVE InsertCacheRows(_, _)
InsertCacheRows(rows, data) ==
  IF data = <<>> THEN rows
  ELSE InsertCacheRows(InsertCacheRow(rows, Head(data)), Tail(data))

\* CacheEmbeddings.add_bulk_cache(data) when the transaction commits: every
\* embedding goes through process_bind_param, then the rows are inserted
add_bulk_cache(rows, data) ==
  InsertCacheRows(rows,
    [i \in 1..Len(data) |->
       [id |-> data[i].id, embedding |-> process_bind_param(data[i].embedding)]])

\* the data push_batch passes to add_bulk_cache
\*   [{'id': docs[i]['_id'], 'embedding': json.dumps(vectors[i], ...)}]
CacheData(ds, vs) ==
  [i \in 1..Len(ds) |-> [id |-> ds[i].id, embedding |-> json_dumps(vs[i])]]

\* self.doc_batch.qsize(): documents put and not yet taken
qsize == Len(doc_batch_buffer) + Len(doc_batch_pipe)

NoIndexRow == [present |-> FALSE, vec |-> NoVector]

WriterInit ==
  /\ ReaderIdle
  /\ StageIdle
  /\ write_log = <<>>
  /\ TextIdle
  /\ ProtoIdle
  /\ cache_on \in BOOLEAN
  /\ doc_batch_buffer = <<>>
  /\ doc_batch_pipe = <<>>
  /\ \E cached \in SUBSET DocPool :
       cache_rows =
         [id \in DocIds |->
            IF \E d \in cached : d.id = id
              THEN [present |-> TRUE,
                    embedding |-> process_bind_param(
                       PyList(Embed((CHOOSE d \in cached : d.id = id).content)))]
              ELSE NoCacheRow]
  /\ index_rows = [id \in DocIds |-> NoIndexRow]
  /\ pcWriter = "idle"
  /\ docs = <<>>
  /\ vectors = <<>>
  /\ loop_i = 0
  /\ adds = 0
  /\ writer_failures = 0
  /\ removed = {}
  /\ handed = {}
  /\ flush_failed = FALSE
  /\ embed_calls = [id \in DocIds |-> 0]
  /\ cache_written = [id \in DocIds |-> NoVector]

writerOthersUnchanged == UNCHANGED <<readerVars, stageVars, contractVars, textVars, protoVars, cache_on>>

\* what the start of a push_batch call resets in the history
FlushStarts ==
  /\ removed' = {}
  /\ handed' = {}
  /\ flush_failed' = FALSE

\* add_document(id, text, metadata): self.doc_batch.put(doc), then
\* push_batch() when self.doc_batch.qsize() >= self.batch_size
AddDocument ==
  /\ pcWriter = "idle"
  /\ adds < MaxAdds
  /\ \E d \in DocPool : doc_batch_buffer' = Append(doc_batch_buffer, d)
  /\ adds' = adds + 1
  /\ IF qsize + 1 >= WriterBatchSize
       THEN pcWriter' = "push_batch" /\ FlushStarts
       ELSE pcWriter' = "idle" /\ UNCHANGED <<removed, handed, flush_failed>>
  /\ writerOthersUnchanged
  /\ UNCHANGED <<doc_batch_pipe, cache_rows, index_rows, docs, vectors, loop_i,
                 writer_failures, embed_calls, cache_written>>

\* a caller calls push_batch() itself (the leftover flush of the scripts)
CallPushBatch ==
  /\ pcWriter = "idle"
  /\ pcWriter' = "push_batch"
  /\ FlushStarts
  /\ writerOthersUnchanged
  /\ UNCHANGED <<doc_batch_buffer, doc_batch_pipe, cache_rows, index_rows, docs,
                 vectors, loop_i, adds, writer_failures, embed_calls, cache_written>>

\* the feeder thread of self.doc_batch writes the oldest buffered document
\* to the pipe
DocBatchFeed ==
  /\ doc_batch_buffer # <<>>
  /\ doc_batch_pipe' = Append(doc_batch_pipe, Head(doc_batch_buffer))
  /\ doc_batch_buffer' = Tail(doc_batch_buffer)
  /\ writerOthersUnchanged
  /\ UNCHANGED <<cache_rows, index_rows, pcWriter, docs, vectors, loop_i, adds,
                 writer_failures, removed, handed, flush_failed, embed_calls,
                 cache_written>>

\* if self.doc_batch.empty(): return False;  docs = []
PushCheckEmpty ==
  /\ pcWriter = "push_batch"
  /\ pcWriter' = IF doc_batch_pipe = <<>> THEN "idle" ELSE "take"
  /\ docs' = <<>>
  /\ vectors' = <<>>
  /\ loop_i' = 0
  /\ writerOthersUnchanged
  /\ UNCHANGED <<doc_batch_buffer, doc_batch_pipe, cache_rows, index_rows, adds,
                 writer_failures, removed, handed, flush_failed, embed_calls,
                 cache_written>>

\* one round of the for loop: doc = self.doc_batch.get_nowait();
\* cache = self._get_cached_embedding(doc['_id']);
\* if cache is None: docs.append(doc)
PushTake ==
  /\ pcWriter = "take"
  /\ loop_i < WriterBatchSize
  /\ doc_batch_pipe # <<>>
  /\ LET doc == Head(doc_batch_pipe)
         cache == get_cached_embedding(cache_on, cache_rows, doc.id)
     IN  /\ doc_batch_pipe' = Tail(doc_batch_pipe)
         /\ docs' = IF cache = NoVector THEN Append(docs, doc) ELSE docs
         /\ removed' = removed \cup {[doc |-> doc, cache |-> cache]}
  /\ loop_i' = loop_i + 1
  /\ writerOthersUnchanged
  /\ UNCHANGED <<doc_batch_buffer, cache_rows, index_rows, pcWriter, vectors,
                 adds, writer_failures, handed, flush_failed, embed_calls,
                 cache_written>>

\* the loop ends: after batch_size rounds, or when get_nowait() raises
\* queue.Empty (except: break);  if len(docs) == 0: return False
PushLoopEnd ==
  /\ pcWriter = "take"
  /\ loop_i >= WriterBatchSize \/ doc_batch_pipe = <<>>
  /\ pcWriter' = IF Len(docs) = 0 THEN "idle" ELSE "embed"
  /\ writerOthersUnchanged
  /\ UNCHANGED <<doc_batch_buffer, doc_batch_pipe, cache_rows, index_rows, docs,
                 vectors, loop_i, adds, writer_failures, removed, handed,
                 flush_failed, embed_calls, cache_written>>

\* vectors = self.embeddings.embed_documents([doc['content'] for doc in docs])
PushEmbed ==
  /\ pcWriter = "embed"
  /\ vectors' = [i \in 1..Len(docs) |-> Embed(docs[i].content)]
  /\ embed_calls' = [id \in DocIds |->
                       embed_calls[id] + Cardinality({i \in 1..Len(docs) : docs[i].id = id})]
  /\ pcWriter' = "insert"
  /\ writerOthersUnchanged
  /\ UNCHANGED <<doc_batch_buffer, doc_batch_pipe, cache_rows, index_rows, docs,
                 loop_i, adds, writer_failures, removed, handed, flush_failed,
                 cache_written>>

\* embed_documents raises (the request fails): nothing catches it, the
\* exception leaves push_batch and its caller
PushEmbedRaises ==
  /\ pcWriter = "embed"
  /\ writer_failures < MaxWriterFailures
  /\ writer_failures' = writer_failures + 1
  /\ flush_failed' = TRUE
  /\ pcWriter' = "raised"
  /\ writerOthersUnchanged
  /\ UNCHANGED <<doc_batch_buffer, doc_batch_pipe, cache_rows, index_rows, docs,
                 vectors, loop_i, adds, removed, handed, embed_calls, cache_written>>

\* self.graph_store.insert_many(docs, vectors=vectors)
PushInsert ==
  /\ pcWriter = "insert"
  /\ index_rows' = [id \in DocIds |->
                      IF \E i \in 1..Len(docs) : docs[i].id = id
                        THEN [present |-> TRUE,
                              vec |-> vectors[CHOOSE i \in 1..Len(docs) : docs[i].id = id]]
                        ELSE index_rows[id]]
  /\ handed' = handed \cup {[doc |-> docs[i], vec |-> vectors[i]] : i \in 1..Len(docs)}
  /\ pcWriter' = "cache"
  /\ writerOthersUnchanged
  /\ UNCHANGED <<doc_batch_buffer, doc_batch_pipe, cache_rows, docs, vectors,
                 loop_i, adds, writer_failures, removed, flush_failed,
                 embed_calls, cache_written>>

\* insert_many raises: except Exception as e: print(e)
PushInsertFails ==
  /\ pcWriter = "insert"
  /\ writer_failures < MaxWriterFailures
  /\ writer_failures' = writer_failures + 1
  /\ flush_failed' = TRUE
  /\ pcWriter' = "cache"
  /\ writerOthersUnchanged
  /\ UNCHANGED <<doc_batch_buffer, doc_batch_pipe, cache_rows, index_rows, docs,
                 vectors, loop_i, adds, removed, handed, embed_calls, cache_written>>

\* self.cache_model.add_bulk_cache([...]); return True.  Without a cache
\* self.cache_model does not exist and the AttributeError leaves push_batch.
PushCache ==
  /\ pcWriter = "cache"
  /\ IF cache_on
       THEN /\ cache_rows' = add_bulk_cache(cache_rows, CacheData(docs, vectors))
            /\ cache_written' =
                 [id \in DocIds |->
                    IF \E i \in 1..Len(docs) : docs[i].id = id
                      THEN vectors[CHOOSE i \in 1..Len(docs) : docs[i].id = id]
                      ELSE cache_written[id]]
            /\ pcWriter' = "idle"
       ELSE /\ pcWriter' = "raised"
            /\ UNCHANGED <<cache_rows, cache_written>>
  /\ writerOthersUnchanged
  /\ UNCHANGED <<doc_batch_buffer, doc_batch_pipe, index_rows, docs, vectors,
                 loop_i, adds, writer_failures, removed, handed, flush_failed,
                 embed_calls>>

\* the transaction of add_bulk_cache fails: rollback, print, worked = False,
\* which push_batch ignores; return True
PushCacheFails ==
  /\ pcWriter = "cache"
  /\ cache_on
  /\ writer_failures < MaxWriterFailures
  /\ writer_failures' = writer_failures + 1
  /\ pcWriter' = "idle"
  /\ writerOthersUnchanged
  /\ UNCHANGED <<doc_batch_buffer, doc_batch_pipe, cache_rows, index_rows, docs,
                 vectors, loop_i, adds, removed, handed, flush_failed,
                 embed_calls, cache_written>>

WriterNext ==
  \/ AddDocument
  \/ CallPushBatch
  \/ DocBatchFeed
  \/ PushCheckEmpty
  \/ PushTake
  \/ PushLoopEnd
  \/ PushEmbed
  \/ PushEmbedRaises
  \/ PushInsert
  \/ PushInsertFails
  \/ PushCache
  \/ PushCacheFails

SpecWriter == WriterInit /\ [][WriterNext]_vars

\* push_batch has returned to its caller
FlushReturned == pcWriter = "idle"

\* the vector the index holds for a document after a successful insert_many
Inserted(doc) ==
  /\ index_rows[doc.id].present
  /\ index_rows[doc.id].vec = Embed(doc.content)

\* C8: when the embedder or the index call failed during a flush, the
\* failure is not raised to the caller, and when the flush returns every
\* document it removed from the buffer for embedding has been inserted into
\* the index (the flush retried until it succeeded).
C8_FlushRetriesUntilInserted ==
  flush_failed =>
    /\ pcWriter # "raised"
    /\ FlushReturned =>
         \A r \in removed : r.cache = NoVector => Inserted(r.doc)

\* C9: when a flush returns without a failure, every document it took from
\* the buffer has been handed to insert_many with a vector: the cached one
\* when the EmbedCache has one for its id, the freshly embedded one otherwise.
C9_EveryTakenDocumentInserted ==
  (FlushReturned /\ ~flush_failed) =>
    \A r \in removed :
      \E h \in handed :
        /\ h.doc = r.doc
        /\ h.vec = IF r.cache # NoVector THEN r.cache ELSE Embed(r.doc.content)

\* C10: once a flush has embedded a document with id X and written it to the
\* EmbedCache, get_cache(X) returns that vector, the stored bytes are
\* 4 x Dim long, and no later flush passes a document with id X to the
\* embedder.
C10_CachedVectorServesLaterFlush ==
  \A id \in DocIds :
    cache_written[id] # NoVector =>
      /\ get_cache(cache_rows, id) = cache_written[id]
      /\ cache_rows[id].embedding.nbytes = 4 * Dim
      /\ pcWriter = "embed" => \A i \in 1..Len(docs) : docs[i].id # id

\* C11: a flush never passes to the embedder the text of a document whose
\* id has a vector in the EmbedCache, whatever else is in the buffer: every
\* step that calls the embedder for an id is taken with no cached vector for
\* that id.
C11_CachedIdNeverEmbedded ==
  [][\A id \in DocIds :
       (cache_on /\ get_cache(cache_rows, id) # NoVector)
         => embed_calls'[id] = embed_calls[id]]_vars

\* a flush took a document with a cached vector together with one without,
\* and has called the embedder
C11_Witness ==
  /\ pcWriter = "insert"
  /\ \E r \in removed : r.cache # NoVector /\ embed_calls[r.doc.id] = 0
  /\ \E r \in removed : r.cache = NoVector /\ embed_calls[r.doc.id] = 1

(***************************************************************************)
(* Part 4: the stores written to directly.  A caller applies any sequence  *)
(* of writes to one table; write_log keeps the committed rows in order.    *)
(***************************************************************************)
\* how many rows one behaviour writes
MaxStoreWrites == 3
\* how many rows one bulk write carries
MaxBulkLen == 2

\* the first row of the log written for id (the log has one)
FirstWrite(log, id) ==
  log[CHOOSE i \in 1..Len(log) :
        /\ log[i].id = id
        /\ \A j \in 1..(i - 1) : log[j].id # id]

WrittenIds(log) == {log[i].id : i \in 1..Len(log)}

\* the embeddings a caller passes: a list of floats, or its JSON text
EmbeddingValues ==
  {PyList(Embed(d.content)) : d \in DocPool}
    \cup {json_dumps(Embed(d.content)) : d \in DocPool}

CacheInit ==
  /\ ReaderIdle
  /\ StageIdle
  /\ write_log = <<>>
  /\ TextIdle
  /\ ProtoIdle
  /\ cache_on = TRUE
  /\ doc_batch_buffer = <<>>
  /\ doc_batch_pipe = <<>>
  /\ cache_rows = [id \in DocIds |-> NoCacheRow]
  /\ index_rows = <<>>
  /\ pcWriter = "idle"
  /\ docs = <<>>
  /\ vectors = <<>>
  /\ loop_i = 0
  /\ adds = 0
  /\ writer_failures = 0
  /\ removed = {}
  /\ handed = {}
  /\ flush_failed = FALSE
  /\ embed_calls = <<>>
  /\ cache_written = <<>>

cacheOthersUnchanged ==
  UNCHANGED <<readerVars, stageVars, textVars, protoVars, cache_on, doc_batch_buffer,
              doc_batch_pipe,
              index_rows, pcWriter, docs, vectors, loop_i, adds, removed, handed,
              flush_failed, embed_calls, cache_written>>

\* session.merge(CacheEmbeddings(id=id, embedding=embedding)): the row with
\* this primary key is inserted, or updated when it exists
merge(rows, id, embedding) ==
  [rows EXCEPT ![id] = [present |-> TRUE,
                        embedding |-> process_bind_param(embedding)]]

\* CacheEmbeddings.add_cache(id, embedding): merge and commit
AddCache ==
  /\ Len(write_log) < MaxStoreWrites
  /\ \E id \in DocIds, embedding \in EmbeddingValues :
       /\ cache_rows' = merge(cache_rows, id, embedding)
       /\ write_log' = Append(write_log,
            [id |-> id, embedding |-> process_bind_param(embedding)])
  /\ UNCHANGED writer_failures
  /\ cacheOthersUnchanged

\* add_cache when the commit fails: rollback, raise e (the exception
\* reaches the caller, who goes on)
AddCacheRaises ==
  /\ writer_failures < MaxWriterFailures
  /\ writer_failures' = writer_failures + 1
  /\ pcWriter' = "raised"
  /\ UNCHANGED <<cache_rows, write_log>>
  /\ UNCHANGED <<readerVars, stageVars, textVars, protoVars, cache_on, doc_batch_buffer,
              doc_batch_pipe,
                 index_rows, docs, vectors, loop_i, adds, removed, handed,
                 flush_failed, embed_calls, cache_written>>

\* the lists a caller passes to add_bulk_cache
CacheBulkData ==
  UNION {[1..n -> [id : DocIds, embedding : EmbeddingValues]] : n \in 1..MaxBulkLen}

\* CacheEmbeddings.add_bulk_cache(data): the transaction commits
AddBulkCache ==
  \E data \in CacheBulkData :
    /\ Len(write_log) + Len(data) <= MaxStoreWrites
    /\ cache_rows' = add_bulk_cache(cache_rows, data)
    /\ write_log' = write_log \o
         [i \in 1..Len(data) |->
            [id |-> data[i].id, embedding |-> process_bind_param(data[i].embedding)]]
    /\ UNCHANGED writer_failures
    /\ cacheOthersUnchanged

\* add_bulk_cache when the transaction fails: rollback, worked = False
AddBulkCacheFails ==
  /\ writer_failures < MaxWriterFailures
  /\ writer_failures' = writer_failures + 1
  /\ UNCHANGED <<cache_rows, write_log>>
  /\ cacheOthersUnchanged

CacheNext ==
  \/ AddCache
  \/ AddCacheRaises
  \/ AddBulkCache
  \/ AddBulkCacheFails

SpecCache == CacheInit /\ [][CacheNext]_vars

\* C12: after any sequence of add_cache and add_bulk_cache, an id has a row
\* exactly when a write for it was committed, and the embedding stored is
\* the one of the first committed write for that id (a write for an id that
\* exists changes nothing).
C12_FirstCacheWriteWins ==
  \A id \in DocIds :
    IF id \in WrittenIds(write_log)
      THEN /\ cache_rows[id].present
           /\ cache_rows[id].embedding = FirstWrite(write_log, id).embedding
      ELSE ~cache_rows[id].present

(***************************************************************************)
(* Further claims about the stage scripts                                  *)
(***************************************************************************)
\* save_ids has finished at least once over the dump
StageADone ==
  \/ phase \in {"A1", "A2"} /\ pcMain = "done"
  \/ phase \in {"B", "end"}

\* the stage B script has finished over the dump
StageBDone == phase = "end"

\* C13: after stage A every dump entity that does not satisfy the
\* in_wikipedia predicate has its own IdRecord, with both flags false.
C13_EveryDumpEntityHasIdRecord ==
  StageADone =>
    \A id \in dump :
      ~is_in_wikipedia(Entity(id)) =>
        /\ idStore[id].present
        /\ ~idStore[id].in_wikipedia
        /\ ~idStore[id].is_property

\* C14: after stage B the LangStore holds the normalised entity of every
\* dump entity that passes the admission test of the script (a row in the
\* IdStore for save_entities, in the target-language Wikipedia for
\* save_items_per_lang); Q1 is stored with label "Universe".
C14_AdmittedEntitiesStored ==
  StageBDone =>
    \A id \in dump :
      (IF script_b = "save_entities"
         THEN idStore[id].present
         ELSE is_in_wikipedia(Entity(id)))
        => /\ langStore[id].present
           /\ langStore[id].label = normalise_item(Entity(id)).label
           /\ langStore[id].description = normalise_item(Entity(id)).description
           /\ langStore[id].aliases = normalise_item(Entity(id)).aliases
           /\ langStore[id].claims = normalise_item(Entity(id)).claims
           /\ id = "Q1" => langStore[id].label = "Universe"

\* C15: every id that has a row in the LangStore has a row in the IdStore.
C15_LangStoreWithinIdStore ==
  \A id \in IdUniverse : langStore[id].present => idStore[id].present

\* stage B has stored Q1 and Q3 of a dump that also holds Q2
C15_Witness ==
  /\ dump = {"Q1", "Q2", "Q3"}
  /\ phase = "B"
  /\ langStore["Q1"].present
  /\ langStore["Q3"].present
  /\ ~langStore["Q2"].present

\* the statements of an entity, and the qualifier groups of a statement
Statements(item) ==
  UNION {Range(item.claims[i].statements) : i \in DOMAIN item.claims}

Qualifiers(st) == IF st.has_qualifiers THEN Range(st.qualifiers) ELSE {}

\* the snaks of an entity that carry a datavalue: main snaks and qualifier
\* snaks of all its statements
ValueSnaks(item) ==
  {st.mainsnak : st \in {st \in Statements(item) :
                           st.has_mainsnak /\ st.mainsnak.has_datavalue}}
  \cup UNION {UNION {{sn \in Range(q.snaks) : sn.has_datavalue} : q \in Qualifiers(st)} :
                st \in Statements(item)}

\* the ids an entity names as a property: the keys of its claims and of
\* the qualifiers of its statements, and its wikibase-property values
PropertyReferences(item) ==
  {item.claims[i].pid : i \in DOMAIN item.claims}
  \cup UNION {{q.pid : q \in Qualifiers(st)} : st \in Statements(item)}
  \cup {sn.id : sn \in {sn \in ValueSnaks(item) : sn.datatype = "wikibase-property"}}

\* the dump entities the save_ids handler lets in
InWikipediaEntities == {id \in dump : is_in_wikipedia(Entity(id))}

LangRows ==
  {normalise_item(e) : e \in EntityPool}
    \cup {[normalise_item(e) EXCEPT !.label = "relabelled"] : e \in EntityPool}

LangBulkData == UNION {[1..n -> LangRows] : n \in 1..MaxBulkLen}

\* the columns of a row of data as the table holds them
StoredLangRow(r) ==
  [present |-> TRUE, label |-> r.label, description |-> r.description,
   aliases |-> r.aliases, claims |-> r.claims]

LangStoreInit ==
  /\ ReaderIdle
  /\ WriterIdle
  /\ write_log = <<>>
  /\ TextIdle
  /\ ProtoIdle
  /\ dump = {}
  /\ stage_a_runs = 1
  /\ script_b = "save_entities"
  /\ phase = "end"
  /\ pcMain = "done"
  /\ main_worked = FALSE
  /\ pending = {}
  /\ batch = <<>>
  /\ lock = 0
  /\ hpc = [c \in Consumers |-> "idle"]
  /\ hitem = [c \in Consumers |-> None]
  /\ hslice = <<>>
  /\ hworked = [c \in Consumers |-> FALSE]
  /\ idStore = EmptyIdStore
  /\ langStore = EmptyLangStore
  /\ failures = 0
  /\ appended = {}
  /\ committed = {}
  /\ upserted = <<>>
  /\ store_after_first_run = <<>>

langStoreOthersUnchanged ==
  UNCHANGED <<readerVars, writerVars, textVars, protoVars, dump, stage_a_runs, script_b,
              phase, pcMain,
              pending, batch, lock, hpc, hitem, hslice, hworked, idStore,
              appended, committed, upserted, store_after_first_run>>

\* add_bulk_entities(data): the transaction commits, worked = True
AddBulkEntities ==
  \E data \in LangBulkData :
    /\ Len(write_log) + Len(data) <= MaxStoreWrites
    /\ langStore' = add_bulk_entities(langStore, data)
    /\ write_log' = write_log \o data
    /\ main_worked' = TRUE
    /\ UNCHANGED failures
    /\ langStoreOthersUnchanged

\* add_bulk_entities(data): the transaction fails, rollback, worked = False
AddBulkEntitiesFails ==
  /\ failures < MaxFailures
  /\ failures' = failures + 1
  /\ main_worked' = FALSE
  /\ UNCHANGED <<langStore, write_log>>
  /\ langStoreOthersUnchanged

LangStoreNext ==
  \/ AddBulkEntities
  \/ AddBulkEntitiesFails

SpecLangStore == LangStoreInit /\ [][LangStoreNext]_vars

\* C17: after any sequence of bulk inserts an id has a row exactly when an
\* insert of it was committed, the row is the one of the first committed
\* insert for that id, and no step changes a row that exists.
C17_FirstLangInsertWins ==
  [][\A id \in IdUniverse :
       /\ IF id \in WrittenIds(write_log')
            THEN langStore'[id] = StoredLangRow(FirstWrite(write_log', id))
            ELSE ~langStore'[id].present
       /\ langStore[id].present => langStore'[id] = langStore[id]]_vars

\* Q1 was inserted as "Universe", then again with another label in a later
\* committed insert, and the table still holds "Universe"
C17_Witness ==
  /\ Len(write_log) >= 2
  /\ write_log[1].id = "Q1" /\ write_log[1].label = "Universe"
  /\ \E i \in 2..Len(write_log) :
       write_log[i].id = "Q1" /\ write_log[i].label = "relabelled"
  /\ langStore["Q1"].label = "Universe"

(***************************************************************************)
(* Further claims about the dump reader                                    *)
(***************************************************************************)
\* the lines the queue holds: put and not yet taken by a consumer
QueueHeld == Len(queue_buffer) + Len(queue_pipe)

\* C18: the queue never holds more than QueueSize lines, and a step that
\* adds a line is taken only when it holds fewer than QueueSize.
C18_QueueBounded ==
  [][ /\ QueueHeld' <= QueueSize
      /\ QueueHeld' > QueueHeld => QueueHeld < QueueSize
    ]_vars

\* the queue is full while the producer has another line to put
C18_Witness ==
  /\ QueueHeld = QueueSize
  /\ pcProducer = "loop"
  /\ next_line <= Len(file_lines)
  /\ next_line > skiplines + 1

\* C19: the handler is never invoked for a line that is blank or fails JSON
\* decoding, the consumer that read it goes on with its loop, and when run
\* has returned every entity line enqueued after such a line has been
\* handled.
C19_MalformedLineSkipped ==
  [][ /\ \A i \in 1..Len(file_lines) :
           line_to_entity(file_lines[i]) = None => handled'[i] = 0
      /\ \A c \in Consumers :
           (/\ pcConsumer[c] = "handle"
            /\ line_to_entity(file_lines[line[c]]) = None
            /\ pcConsumer'[c] # pcConsumer[c]) => pcConsumer'[c] = "count"
      /\ pcRun' = "returned" =>
           \A i \in enqueued', j \in enqueued' :
             (/\ i < j
              /\ line_to_entity(file_lines[i]) = None
              /\ line_to_entity(file_lines[j]) # None) => handled'[j] = 1
    ]_vars

RECURSIVE SumTo(_, _)
SumTo(f, n) == IF n = 0 THEN 0 ELSE f[n] + SumTo(f, n - 1)

\* how many times handler_func has been invoked
HandlerCalls == SumTo(handled, MaxLines + 1)

\* C20: for every max_iterations that is not None, 0 included, the producer
\* enqueues at most max_iterations lines and the handler is invoked at most
\* max_iterations times.
C20_AtMostMaxIterations ==
  max_iterations # NoneInt =>
    /\ Cardinality(enqueued) <= max_iterations
    /\ HandlerCalls <= max_iterations

(***************************************************************************)
(* Part 5.  WikidataTextifier.chunk_text (src/wikidataEmbed.py): an entity *)
(* is rendered to text and the text is cut into chunks of at most          *)
(* max_length tokens.  A text is the sequence of the tokens the tokenizer  *)
(* finds in it; the description of an entity and each rendered property    *)
(* are runs of tokens of their own.                                        *)
(***************************************************************************)

MaxDescriptionTokens == 2
MaxProperties == 3
MaxPropertyTokens == 3
MaxMaxLength == 9

\* entity_to_text(entity, as_list=True): the description (label, description,
\* aliases) and the list of rendered properties, "\n- <property>: <values>"
entity_to_text(entity) ==
  [entity_description |->
     [i \in 1..entity.description_tokens |-> <<"description", 0, i>>],
   properties |->
     [k \in 1..Len(entity.property_tokens) |->
        [j \in 1..entity.property_tokens[k] |-> <<"property", k, j>>]]]

\* ''.join(properties)
RECURSIVE join(_)
join(properties) ==
  IF properties = <<>> THEN <<>>
  ELSE Head(properties) \o join(Tail(properties))

\* merge_entity_property_text under 'en':
\* "<description>. Attributes include: <properties>", or "<description>."
merge_entity_property_text(entity_description, properties) ==
  IF Len(properties) > 0
    THEN entity_description
           \o <<<<".", 0, 1>>, <<"Attributes", 0, 1>>, <<"include", 0, 1>>,
                <<":", 0, 1>>>>
           \o join(properties)
    ELSE entity_description \o <<<<".", 0, 1>>>>

\* tokenizer(text, add_special_tokens=False, return_offsets_mapping=True):
\* the tokens of the text and, for each, where it starts and ends in the text
tokenizer(text) ==
  [input_ids |-> text,
   offset_mapping |-> [i \in 1..Len(text) |-> <<i - 1, i>>]]

\* text[start:end]
Slice(text, start, end) == SubSeq(text, start + 1, end)

\* the cut with the truncation left out: the text up to its last token
cut_Untruncated(entity_text, offsets, max_length) ==
  Slice(entity_text, offsets[1][1], offsets[Len(offsets)][2])

\* start, end = offsets[0][0], offsets[max_length - 1][1];
\* entity_text[start:end]
cut(entity_text, offsets, max_length) ==
  Slice(entity_text, offsets[1][1], offsets[max_length][2])

\* the loop of chunk_text over the properties, from the k-th on
RECURSIVE chunk_loop(_, _, _, _, _, _)
chunk_loop(entity_description, properties, k, chunk_claims, chunks, max_length) ==
  IF k > Len(properties)
    THEN [chunks |-> chunks, chunk_claims |-> chunk_claims]
    ELSE
      LET claim == properties[k]
          entity_text == merge_entity_property_text(entity_description,
                                                    chunk_claims \o <<claim>>)
          tokens == tokenizer(entity_text)
      IN  IF Len(tokens.input_ids) >= max_length
            THEN chunk_loop(entity_description, properties, k + 1,
                            IF Len(chunk_claims) = 0 THEN <<>> ELSE <<claim>>,
                            Append(chunks, cut(entity_text, tokens.offset_mapping,
                                               max_length)),
                            max_length)
            ELSE chunk_loop(entity_description, properties, k + 1,
                            Append(chunk_claims, claim), chunks, max_length)

\* chunk_text(entity, tokenizer, max_length): the list of chunks
chunk_text(entity, max_length) ==
  LET rendered == entity_to_text(entity)
      entity_description == rendered.entity_description
      properties == rendered.properties
      entity_text == merge_entity_property_text(entity_description, properties)
  IN  IF Len(tokenizer(entity_text).input_ids) < max_length
        THEN <<entity_text>>
      ELSE IF Len(tokenizer(entity_description).input_ids) >= max_length
        THEN <<cut(entity_text, tokenizer(entity_description).offset_mapping,
                   max_length)>>
      ELSE
        LET after == chunk_loop(entity_description, properties, 1, <<>>, <<>>,
                                max_length)
            last_text == merge_entity_property_text(entity_description,
                                                    after.chunk_claims)
            tokens == tokenizer(last_text)
        IN  IF Len(after.chunk_claims) > 0
              THEN Append(after.chunks,
                     IF Len(tokens.input_ids) >= max_length
                       THEN cut(last_text, tokens.offset_mapping, max_length)
                       ELSE Slice(last_text, tokens.offset_mapping[1][1],
                              tokens.offset_mapping[Len(tokens.offset_mapping)][2]))
              ELSE after.chunks

\* the entities chunk_text is called with: a description of at least one
\* token (label, comma, description) and some rendered properties
ChunkEntities ==
  [description_tokens : 1..MaxDescriptionTokens,
   property_tokens : SeqsUpTo(1..MaxPropertyTokens, MaxProperties)]

ChunkInit ==
  /\ ReaderIdle
  /\ StageIdle
  /\ WriterIdle
  /\ write_log = <<>>
  /\ textifier_call \in [method : {"chunk_text"}, entity : ChunkEntities,
                         max_length : 1..MaxMaxLength]
  /\ textifier_return = [returned |-> "nothing"]
  /\ ProtoIdle

textOthersUnchanged ==
  UNCHANGED <<readerVars, stageVars, writerVars, contractVars, protoVars,
              textifier_call>>

\* one call chunk_text(entity, tokenizer, max_length)
ChunkText ==
  /\ textifier_call.method = "chunk_text"
  /\ textifier_return.returned = "nothing"
  /\ textifier_return' =
       [returned |-> "chunks",
        chunks |-> chunk_text(textifier_call.entity, textifier_call.max_length)]
  /\ textOthersUnchanged

ChunkNext == ChunkText

SpecChunk == ChunkInit /\ [][ChunkNext]_vars

\* the full rendered text of the entity of the call
FullText ==
  LET rendered == entity_to_text(textifier_call.entity)
  IN  merge_entity_property_text(rendered.entity_description, rendered.properties)

ChunkReturned ==
  textifier_call.method = "chunk_text" /\ textifier_return.returned = "chunks"

\* C21: an entity whose full text has at most max_length tokens (exactly
\* max_length included) comes back as one chunk, and the chunk is the full text
C21_ShortTextIsOneChunk ==
  (ChunkReturned
     /\ Len(tokenizer(FullText).input_ids) <= textifier_call.max_length)
  => textifier_return.chunks = <<FullText>>

\* C23: every chunk chunk_text returns has at most max_length tokens
C23_ChunkWithinMaxLength ==
  ChunkReturned =>
    \A i \in 1..Len(textifier_return.chunks) :
      Len(tokenizer(textifier_return.chunks[i]).input_ids)
        <= textifier_call.max_length

\* a text longer than max_length came back as several chunks, one of them
\* cut to exactly max_length tokens
C23_Witness ==
  /\ ChunkReturned
  /\ Len(tokenizer(FullText).input_ids) > textifier_call.max_length
  /\ Len(textifier_return.chunks) >= 2
  /\ \E i \in 1..Len(textifier_return.chunks) :
       Len(textifier_return.chunks[i]) = textifier_call.max_length

\* the k-th rendered property of the entity of the call, and the text of the
\* description with that property alone
PropertyText(k) == entity_to_text(textifier_call.entity).properties[k]

HeaderWith(k) ==
  merge_entity_property_text(
    entity_to_text(textifier_call.entity).entity_description, <<PropertyText(k)>>)

\* the chunks that hold the whole k-th property, and those that hold some of it
ChunksWithAll(k) ==
  {i \in 1..Len(textifier_return.chunks) :
     Range(PropertyText(k)) \subseteq Range(textifier_return.chunks[i])}

ChunksWithSome(k) ==
  {i \in 1..Len(textifier_return.chunks) :
     Range(PropertyText(k)) \cap Range(textifier_return.chunks[i]) # {}}

\* C22: a property that fits (description plus that property is below
\* max_length) is complete in some chunk; a property is cut only when the
\* description plus that property alone exceeds max_length, and then its
\* truncated form is in exactly one chunk.  Stated for the calls that reach
\* the loop over the properties with room for property text in a chunk.
C22_PropertiesKeptOrCutOnce ==
  (ChunkReturned
     /\ Len(tokenizer(FullText).input_ids) >= textifier_call.max_length
     /\ textifier_call.entity.description_tokens + 4 < textifier_call.max_length)
  => \A k \in 1..Len(textifier_call.entity.property_tokens) :
       LET alone == Len(tokenizer(HeaderWith(k)).input_ids)
       IN  /\ alone < textifier_call.max_length => ChunksWithAll(k) # {}
           /\ ChunksWithAll(k) = {} => alone > textifier_call.max_length
           /\ alone > textifier_call.max_length
                => Cardinality(ChunksWithSome(k)) = 1

(***************************************************************************)
(* Part 6.  WikidataTextifier.properties_to_text: which claims of one      *)
(* property are rendered.  A claim has a rank and a main snak that         *)
(* mainsnak_to_value renders to a value or to None; the rendered value of  *)
(* the i-th claim is written i.                                            *)
(***************************************************************************)

MaxClaims == 3

Ranks == {"preferred", "normal", "deprecated"}

\* the claims of one property as the textifier receives them
ClaimLists == SeqsUpTo([rank : Ranks, has_value : BOOLEAN], MaxClaims)

\* the loop over the claims of one property, from the i-th on
RECURSIVE rank_loop(_, _, _, _)
rank_loop(claim, i, p_data, rank_preferred_found) ==
  IF i > Len(claim) THEN p_data
  ELSE
    LET c == claim[i]
    IN  IF c.has_value /\ ((~rank_preferred_found) \/ c.rank = "preferred")
          THEN IF (~rank_preferred_found) /\ c.rank = "preferred"
                 THEN rank_loop(claim, i + 1, <<i>>, TRUE)
                 ELSE rank_loop(claim, i + 1, Append(p_data, i),
                                rank_preferred_found)
          ELSE rank_loop(claim, i + 1, p_data, rank_preferred_found)

\* properties_to_text for one property: the values rendered after the label
\* of the property, nothing when no value is kept or the property is unknown
properties_to_text(claim, property_found) ==
  LET p_data == rank_loop(claim, 1, <<>>, FALSE)
  IN  IF Len(p_data) > 0 /\ property_found THEN p_data ELSE <<>>

RankInit ==
  /\ ReaderIdle
  /\ StageIdle
  /\ WriterIdle
  /\ write_log = <<>>
  /\ textifier_call \in [method : {"properties_to_text"}, claim : ClaimLists,
                         property_found : BOOLEAN]
  /\ textifier_return = [returned |-> "nothing"]
  /\ ProtoIdle

\* one call properties_to_text({pid: claim})
PropertiesToText ==
  /\ textifier_call.method = "properties_to_text"
  /\ textifier_return.returned = "nothing"
  /\ textifier_return' =
       [returned |-> "values",
        values |-> properties_to_text(textifier_call.claim,
                                      textifier_call.property_found)]
  /\ textOthersUnchanged

RankNext == PropertiesToText

SpecRank == RankInit /\ [][RankNext]_vars

\* the claims of the call that have a value and the given rank
Valued(rank) ==
  {i \in 1..Len(textifier_call.claim) :
     textifier_call.claim[i].has_value /\ textifier_call.claim[i].rank = rank}

\* C24: for a known property the rendered values are exactly those of the
\* preferred claims when a claim is preferred, otherwise exactly those of the
\* normal claims; a deprecated claim is never rendered
C24_RankSelection ==
  (/\ textifier_call.method = "properties_to_text"
   /\ textifier_return.returned = "values"
   /\ textifier_call.property_found)
  => /\ Range(textifier_return.values) =
          IF Valued("preferred") # {} THEN Valued("preferred")
                                      ELSE Valued("normal")
     /\ Len(textifier_return.values) = Cardinality(Range(textifier_return.values))
     /\ Range(textifier_return.values) \cap Valued("deprecated") = {}

(***************************************************************************)
(* Part 7.  WikidataTextifier.time_to_text under language 'en'.  A time    *)
(* value is the string <sign><year>-<month>-<day>T00:00:00Z with a         *)
(* precision and a calendar model; the text returned is written as the     *)
(* sequence of the parts its f-string joins with blanks.                   *)
(***************************************************************************)

MaxYear == 101

\* the years of the time strings: the small ones, a recent one, the largest
\* of four digits
TimeYears == (0..MaxYear) \cup {1879, 9999}

TimePrecisions == {7, 9, 11}

Julian == "http://www.wikidata.org/entity/Q1985786"
Gregorian == "http://www.wikidata.org/entity/Q1985727"

TimeValues ==
  [sign : {"+", "-"}, year : TimeYears, month : 0..12, day : 0..31,
   precision : TimePrecisions, calendarmodel : {Julian, Gregorian}]

\* lang_values['en']['months']
months == <<"Jan", "Feb", "Mar", "Apr", "May", "Jun", "Jul", "Aug", "Sep",
            "Oct", "Nov", "Dec">>

abs(n) == IF n < 0 THEN 0 - n ELSE n

\* datetime.date: the days of a month of the proleptic Gregorian calendar
IsLeap(y) == (y % 4 = 0 /\ y % 100 # 0) \/ y % 400 = 0

DaysInMonth(y, m) ==
  IF m = 2 THEN (IF IsLeap(y) THEN 29 ELSE 28)
  ELSE IF m \in {4, 6, 9, 11} THEN 30 ELSE 31

\* date(year, month, day) raises ValueError outside these
ValidDate(y, m, d) ==
  /\ y \in 1..9999
  /\ m \in 1..12
  /\ d \in 1..DaysInMonth(y, m)

\* datetime(1582, 10, 15).toordinal() - datetime(1582, 10, 5).toordinal()
JulianShift == 10

\* date.fromordinal(date(y, m, d).toordinal() + shift), for a shift shorter
\* than a month
AddDays(y, m, d, shift) ==
  IF d + shift <= DaysInMonth(y, m)
    THEN [year |-> y, month |-> m, day |-> d + shift]
  ELSE IF m < 12
    THEN [year |-> y, month |-> m + 1, day |-> d + shift - DaysInMonth(y, m)]
  ELSE [year |-> y + 1, month |-> 1, day |-> d + shift - DaysInMonth(y, m)]

\* year = int(year_str) * (1 if sign == '+' else -1)
ParsedYear(time_data) ==
  time_data.year * (IF time_data.sign = "+" THEN 1 ELSE 0 - 1)

\* 'Q1985786' in calendarmodel and year > 1 and len(str(abs(year))) <= 4
ConvertsCalendar(time_data) ==
  /\ time_data.calendarmodel = Julian
  /\ ParsedYear(time_data) > 1
  /\ abs(ParsedYear(time_data)) <= 9999

\* month and day with '00' read as 1
MonthOrOne(time_data) == IF time_data.month = 0 THEN 1 ELSE time_data.month
DayOrOne(time_data) == IF time_data.day = 0 THEN 1 ELSE time_data.day

\* the conversion raises ValueError("Invalid date for Julian calendar"): the
\* date does not exist, or the shifted date is past date.max
ConversionRaises(time_data) ==
  /\ ConvertsCalendar(time_data)
  /\ \/ ~ValidDate(ParsedYear(time_data), MonthOrOne(time_data),
                   DayOrOne(time_data))
     \/ AddDays(ParsedYear(time_data), MonthOrOne(time_data),
                DayOrOne(time_data), JulianShift).year > 9999

\* year, month, day after the calendar branch
gregorian_date(time_data) ==
  IF ConvertsCalendar(time_data)
    THEN AddDays(ParsedYear(time_data), MonthOrOne(time_data),
                 DayOrOne(time_data), JulianShift)
    ELSE [year |-> ParsedYear(time_data), month |-> MonthOrOne(time_data),
          day |-> DayOrOne(time_data)]

\* the century with the ceiling of the quotient in place of the floor
century_Ceiling(year) == ((abs(year) - 1) + 99) \div 100 + 1

\* century = (abs(year) - 1) // 100 + 1
century(year) == (abs(year) - 1) \div 100 + 1

\* the text by precision
time_to_text(time_data) ==
  LET g == gregorian_date(time_data)
      year == g.year
      month_str == months[g.month]
      day == g.day
      era == IF year > 0 THEN "AD" ELSE "BC"
      precision == time_data.precision
  IN  CASE precision = 14 -> <<year, month_str, day, "00", "00", "00">>
        [] precision = 13 -> <<year, month_str, day, "00", "00">>
        [] precision = 12 -> <<year, month_str, day, "00", "00">>
        [] precision = 11 -> <<day, month_str, year>>
        [] precision = 10 -> <<month_str, year>>
        [] precision = 9 -> <<abs(year), IF year > 0 THEN "" ELSE " BC">>
        [] precision = 8 -> <<abs((year \div 10) * 10), "s", era>>
        [] precision = 7 -> <<century(year), "th century", era>>
        [] precision = 6 -> <<(abs(year) - 1) \div 1000 + 1, "th millennium", era>>
        [] precision = 5 -> <<abs(year) \div 10000, "ten thousand years", era>>
        [] precision = 4 -> <<abs(year) \div 100000, "hundred thousand years", era>>
        [] precision = 3 -> <<abs(year) \div 1000000, "million years", era>>
        [] precision = 2 -> <<abs(year) \div 10000000, "tens of millions of years", era>>
        [] precision = 1 -> <<abs(year) \div 100000000, "hundred million years", era>>
        [] precision = 0 -> <<abs(year) \div 1000000000, "billion years", era>>

TimeInit ==
  /\ ReaderIdle
  /\ StageIdle
  /\ WriterIdle
  /\ write_log = <<>>
  /\ textifier_call \in [method : {"time_to_text"}, time_data : TimeValues]
  /\ textifier_return = [returned |-> "nothing"]
  /\ ProtoIdle

\* one call time_to_text(time_data) that returns
TimeToText ==
  /\ textifier_call.method = "time_to_text"
  /\ textifier_return.returned = "nothing"
  /\ ~ConversionRaises(textifier_call.time_data)
  /\ textifier_call.time_data.precision \in 0..14
  /\ textifier_return' =
       [returned |-> "text", text |-> time_to_text(textifier_call.time_data)]
  /\ textOthersUnchanged

\* one call time_to_text(time_data) that raises ValueError
TimeToTextRaises ==
  /\ textifier_call.method = "time_to_text"
  /\ textifier_return.returned = "nothing"
  /\ \/ ConversionRaises(textifier_call.time_data)
     \/ textifier_call.time_data.precision \notin 0..14
  /\ textifier_return' = [returned |-> "ValueError"]
  /\ textOthersUnchanged

TimeNext ==
  \/ TimeToText
  \/ TimeToTextRaises

SpecTime == TimeInit /\ [][TimeNext]_vars

TimeReturned ==
  textifier_call.method = "time_to_text" /\ textifier_return.returned # "nothing"

\* C25: for precision 9 or 11 and a valid date +YYYY-MM-DD the text holds the
\* year YYYY and, for precision 11, the day DD and the English abbreviation
\* of month MM; +1879-03-14 with precision 11 and calendar model Q1985786
\* gives "14 Mar 1879"
C25_DateRendered ==
  LET t == textifier_call.time_data
  IN  (/\ TimeReturned
       /\ t.sign = "+"
       /\ t.precision \in {9, 11}
       /\ ValidDate(t.year, t.month, t.day))
      => /\ textifier_return.returned = "text"
         /\ t.precision = 9 => textifier_return.text[1] = t.year
         /\ t.precision = 11 =>
              textifier_return.text = <<t.day, months[t.month], t.year>>
         /\ (t.precision = 11 /\ t.year = 1879 /\ t.month = 3 /\ t.day = 14
               /\ t.calendarmodel = Julian)
              => textifier_return.text = <<14, "Mar", 1879>>

\* C26 as stated: for precision 7 and |year| >= 1 the century rendered is
\* ceil((|year| - 1) / 100) + 1
C26_CenturyIsCeiling ==
  LET t == textifier_call.time_data
  IN  (/\ TimeReturned
       /\ textifier_return.returned = "text"
       /\ t.precision = 7
       /\ t.year >= 1)
      => textifier_return.text[1] = ((t.year - 1) + 99) \div 100 + 1

\* the year of the date that is rendered: the year given, or the next one for
\* a date of the Julian calendar that the conversion moves past 31 December
RenderedYear ==
  LET t == textifier_call.time_data
  IN  IF /\ t.calendarmodel = Julian
         /\ t.sign = "+" /\ t.year > 1 /\ t.year <= 9999
         /\ t.month = 12 /\ t.day >= 22
        THEN t.year + 1
        ELSE t.year

\* C26 amended: for precision 7 and |year| >= 1 the century rendered is
\* floor((|y| - 1) / 100) + 1 for the rendered year y, that is the century c
\* with 100 (c - 1) < |y| <= 100 c
C26_CenturyIsFloor ==
  LET t == textifier_call.time_data
  IN  (/\ TimeReturned
       /\ textifier_return.returned = "text"
       /\ t.precision = 7
       /\ t.year >= 1)
      => /\ 100 * (textifier_return.text[1] - 1) < RenderedYear
         /\ RenderedYear <= 100 * textifier_return.text[1]

\* the year 1879 is rendered as century 19, and a year that ends a century
\* (100) as century 1
C26_Witness ==
  /\ TimeReturned
  /\ textifier_return.returned = "text"
  /\ textifier_call.time_data.precision = 7
  /\ textifier_call.time_data.calendarmodel = Gregorian
  /\ \/ textifier_call.time_data.year = 1879 /\ textifier_return.text[1] = 19
     \/ textifier_call.time_data.year = 100 /\ textifier_return.text[1] = 1

(***************************************************************************)
(* Further claims on the stage handlers (SpecStage).                      *)
(***************************************************************************)

\* the handler processes inside the with block of the lock
InFlush(h) == {c \in Consumers : h[c] \in {"check", "upsert", "after"}}

\* C27: with several consumers in a stage handler at most one is inside the
\* locked flush at any time, and a handler that deletes from the shared list
\* deletes exactly the slice it has just committed: the list was that slice
\* followed by what remains
C27_FlushExclusiveAndExact ==
  [][ /\ Cardinality(InFlush(hpc')) <= 1
      /\ (pcMain = "run" /\ batch' # batch /\ Len(batch') <= Len(batch)) =>
           \E c \in Consumers :
             /\ hpc[c] = "after" /\ hworked[c]
             /\ lock = c
             /\ Len(hslice) = BATCH_SIZE
             /\ batch = hslice \o batch'
             /\ Range(hslice) \subseteq committed
    ]_vars

\* a handler is about to delete its committed slice while the other has
\* appended behind it and waits for the lock
C27_Witness ==
  \E c, d \in Consumers :
    /\ c # d
    /\ hpc[c] = "after" /\ hworked[c]
    /\ hpc[d] = "lock"
    /\ Len(batch) > Len(hslice)

(***************************************************************************)
(* Further claims on the batch writer (SpecWriter).                        *)
(***************************************************************************)

\* C28: whenever add_document has returned without raising, the buffer of
\* the writer holds fewer documents than the batch size
C28_BufferBelowBatchSize ==
  (pcWriter = "idle" /\ adds > 0) => qsize < WriterBatchSize

(***************************************************************************)
(* Further claims on the dump reader (SpecReader).                         *)
(***************************************************************************)

\* the lines the consumers have taken from the queue, and the consumers that
\* hold a line they have not counted yet
Dequeued == Cardinality(enqueued) - Len(queue_buffer) - Len(queue_pipe)

Holding == {c \in Consumers : line[c] # NoneInt}

MaxItems == 2
MaxChunks == 2

\* an item as process_items sees it: whether the textifier finds a label for
\* it, and the number of chunks chunk_text returns for it
ItemKinds == [label : BOOLEAN, chunks : 0..MaxChunks]

\* the document of chunk k of item i: id "<QID>_<LANGUAGE>_<k>" and its text
ProtoDoc(i, k) ==
  [id |-> <<i, k>>, content |-> IF k = 1 THEN "text1" ELSE "text2"]

ProtoDocIds == (1..MaxItems) \X (1..MaxChunks)

ProtoInit ==
  /\ ReaderIdle
  /\ StageIdle
  /\ WriterIdle
  /\ write_log = <<>>
  /\ textifier_call = [method |-> "none"]
  /\ textifier_return = [returned |-> "nothing"]
  /\ dataset \in SeqsUpTo(ItemKinds, MaxItems)
  /\ pcProto = "put_items"
  /\ put_i = 1
  /\ sentinels_put = 0
  /\ work_buffer = <<>>
  /\ work_pipe = <<>>
  /\ wpc = [w \in Consumers |-> "get"]
  /\ witem = [w \in Consumers |-> NoneInt]
  /\ wchunk = [w \in Consumers |-> 0]
  /\ wbuffer = [w \in Consumers |-> <<>>]
  /\ wpipe = [w \in Consumers |-> <<>>]
  /\ wdocs = [w \in Consumers |-> <<>>]
  /\ wloop = [w \in Consumers |-> 0]
  /\ wfrom = [w \in Consumers |-> "add"]
  /\ \E cached \in SUBSET ProtoDocIds :
       proto_cache_rows =
         [id \in ProtoDocIds |->
            IF id \in cached
              THEN [present |-> TRUE,
                    embedding |-> process_bind_param(
                       PyList(Embed(ProtoDoc(id[1], id[2]).content)))]
              ELSE NoCacheRow]
  /\ proto_index = {}
  /\ proto_failures = 0
  /\ wtaken = [w \in Consumers |-> <<>>]

protoOthersUnchanged ==
  UNCHANGED <<readerVars, stageVars, writerVars, contractVars, textVars, dataset>>

\* queue.qsize() of the shared queue against its maxsize
WorkQueueFull == Len(work_buffer) + Len(work_pipe) >= QueueSize

\* for item in dataset: queue.put(item)  (blocks while the queue is full)
MainPutItem ==
  /\ pcProto = "put_items"
  /\ put_i <= Len(dataset)
  /\ ~WorkQueueFull
  /\ work_buffer' = Append(work_buffer, put_i)
  /\ put_i' = put_i + 1
  /\ protoOthersUnchanged
  /\ UNCHANGED <<pcProto, sentinels_put, work_pipe, wpc, witem, wchunk, wbuffer,
                 wpipe, wdocs, wloop, wfrom, proto_cache_rows, proto_index,
                 proto_failures, wtaken>>

\* the dataset is exhausted;  for _ in range(NUM_PROCESSES): queue.put(None)
MainPutSentinel ==
  /\ \/ pcProto = "put_items" /\ put_i > Len(dataset)
     \/ pcProto = "put_sentinels"
  /\ IF sentinels_put < NumProcesses
       THEN /\ ~WorkQueueFull
            /\ work_buffer' = Append(work_buffer, NoneInt)
            /\ sentinels_put' = sentinels_put + 1
            /\ pcProto' = "put_sentinels"
       ELSE /\ pcProto' = "wait"
            /\ UNCHANGED <<work_buffer, sentinels_put>>
  /\ protoOthersUnchanged
  /\ UNCHANGED <<put_i, work_pipe, wpc, witem, wchunk, wbuffer, wpipe, wdocs,
                 wloop, wfrom, proto_cache_rows, proto_index, proto_failures,
                 wtaken>>

\* while any(p.is_alive() ...): sleep;  for p in processes: p.join()
MainJoin ==
  /\ pcProto = "wait"
  /\ \A w \in Consumers : wpc[w] \in {"exited", "raised"}
  /\ pcProto' = "returned"
  /\ protoOthersUnchanged
  /\ UNCHANGED <<put_i, sentinels_put, work_buffer, work_pipe, wpc, witem,
                 wchunk, wbuffer, wpipe, wdocs, wloop, wfrom, proto_cache_rows,
                 proto_index, proto_failures, wtaken>>

\* the feeder thread of the shared queue writes the oldest put to the pipe
WorkFeed ==
  /\ work_buffer # <<>>
  /\ work_pipe' = Append(work_pipe, Head(work_buffer))
  /\ work_buffer' = Tail(work_buffer)
  /\ protoOthersUnchanged
  /\ UNCHANGED <<pcProto, put_i, sentinels_put, wpc, witem, wchunk, wbuffer,
                 wpipe, wdocs, wloop, wfrom, proto_cache_rows, proto_index,
                 proto_failures, wtaken>>

\* item = queue.get();  if item is None: break;  the label is looked up and
\* an item without a label, or without chunks, is done at once
WorkerGet(w) ==
  /\ wpc[w] = "get"
  /\ work_pipe # <<>>
  /\ LET item == Head(work_pipe)
     IN  /\ work_pipe' = Tail(work_pipe)
         /\ wtaken' = [wtaken EXCEPT ![w] = Append(@, item)]
         /\ IF item = NoneInt
              THEN /\ wpc' = [wpc EXCEPT ![w] = "drain"]
                   /\ UNCHANGED <<witem, wchunk>>
            ELSE IF dataset[item].label /\ dataset[item].chunks > 0
              THEN /\ wpc' = [wpc EXCEPT ![w] = "add"]
                   /\ witem' = [witem EXCEPT ![w] = item]
                   /\ wchunk' = [wchunk EXCEPT ![w] = 1]
            ELSE UNCHANGED <<wpc, witem, wchunk>>
  /\ protoOthersUnchanged
  /\ UNCHANGED <<pcProto, put_i, sentinels_put, work_buffer, wbuffer, wpipe,
                 wdocs, wloop, wfrom, proto_cache_rows, proto_index,
                 proto_failures>>

\* add_document returned: the next chunk of the item, or the next item
ContinueItem(w) ==
  IF wchunk[w] < dataset[witem[w]].chunks
    THEN /\ wchunk' = [wchunk EXCEPT ![w] = @ + 1]
         /\ wpc' = [wpc EXCEPT ![w] = "add"]
         /\ UNCHANGED witem
    ELSE /\ wchunk' = [wchunk EXCEPT ![w] = 0]
         /\ witem' = [witem EXCEPT ![w] = NoneInt]
         /\ wpc' = [wpc EXCEPT ![w] = "get"]

\* push_batch returns result to its caller: add_document goes on with the
\* item; the leftover loop calls again after True and breaks after False
ReturnFromPush(w, result) ==
  IF wfrom[w] = "add"
    THEN ContinueItem(w)
    ELSE /\ wpc' = [wpc EXCEPT ![w] = IF result THEN "drain" ELSE "exited"]
         /\ UNCHANGED <<witem, wchunk>>

\* graph_store.add_document(id, text, metadata): self.doc_batch.put(doc),
\* then push_batch() when self.doc_batch.qsize() >= self.batch_size
WorkerAddDocument(w) ==
  /\ wpc[w] = "add"
  /\ wbuffer' = [wbuffer EXCEPT ![w] = Append(@, ProtoDoc(witem[w], wchunk[w]))]
  /\ IF Len(wbuffer[w]) + Len(wpipe[w]) + 1 >= WriterBatchSize
       THEN /\ wpc' = [wpc EXCEPT ![w] = "push_batch"]
            /\ wfrom' = [wfrom EXCEPT ![w] = "add"]
            /\ UNCHANGED <<witem, wchunk>>
       ELSE /\ ContinueItem(w)
            /\ UNCHANGED wfrom
  /\ protoOthersUnchanged
  /\ UNCHANGED <<pcProto, put_i, sentinels_put, work_buffer, work_pipe, wpipe,
                 wdocs, wloop, proto_cache_rows, proto_index, proto_failures,
                 wtaken>>

\* the feeder thread of a worker's doc_batch
WorkerDocFeed(w) ==
  /\ wbuffer[w] # <<>>
  /\ wpipe' = [wpipe EXCEPT ![w] = Append(@, Head(wbuffer[w]))]
  /\ wbuffer' = [wbuffer EXCEPT ![w] = Tail(@)]
  /\ protoOthersUnchanged
  /\ UNCHANGED <<pcProto, put_i, sentinels_put, work_buffer, work_pipe, wpc,
                 witem, wchunk, wdocs, wloop, wfrom, proto_cache_rows,
                 proto_index, proto_failures, wtaken>>

\* the leftover loop: while True: if not graph_store.push_batch(): break
WorkerDrain(w) ==
  /\ wpc[w] = "drain"
  /\ wpc' = [wpc EXCEPT ![w] = "push_batch"]
  /\ wfrom' = [wfrom EXCEPT ![w] = "drain"]
  /\ protoOthersUnchanged
  /\ UNCHANGED <<pcProto, put_i, sentinels_put, work_buffer, work_pipe, witem,
                 wchunk, wbuffer, wpipe, wdocs, wloop, proto_cache_rows,
                 proto_index, proto_failures, wtaken>>

\* push_batch: if self.doc_batch.empty(): return False;  docs = []
WorkerPushCheckEmpty(w) ==
  /\ wpc[w] = "push_batch"
  /\ wdocs' = [wdocs EXCEPT ![w] = <<>>]
  /\ wloop' = [wloop EXCEPT ![w] = 0]
  /\ IF wpipe[w] = <<>>
       THEN ReturnFromPush(w, FALSE)
       ELSE /\ wpc' = [wpc EXCEPT ![w] = "take"]
            /\ UNCHANGED <<witem, wchunk>>
  /\ protoOthersUnchanged
  /\ UNCHANGED <<pcProto, put_i, sentinels_put, work_buffer, work_pipe, wbuffer,
                 wpipe, wfrom, proto_cache_rows, proto_index, proto_failures,
                 wtaken>>

\* one round of the for loop of push_batch: get_nowait(), cache lookup,
\* docs.append(doc) when there is no cached embedding
WorkerPushTake(w) ==
  /\ wpc[w] = "take"
  /\ wloop[w] < WriterBatchSize
  /\ wpipe[w] # <<>>
  /\ LET doc == Head(wpipe[w])
         cache == get_cached_embedding(TRUE, proto_cache_rows, doc.id)
     IN  /\ wpipe' = [wpipe EXCEPT ![w] = Tail(@)]
         /\ wdocs' = [wdocs EXCEPT ![w] =
                        IF cache = NoVector THEN Append(@, doc) ELSE @]
  /\ wloop' = [wloop EXCEPT ![w] = @ + 1]
  /\ protoOthersUnchanged
  /\ UNCHANGED <<pcProto, put_i, sentinels_put, work_buffer, work_pipe, wpc,
                 witem, wchunk, wbuffer, wfrom, proto_cache_rows, proto_index,
                 proto_failures, wtaken>>

\* the loop ends (batch_size rounds, or queue.Empty);
\* if len(docs) == 0: return False
WorkerPushLoopEnd(w) ==
  /\ wpc[w] = "take"
  /\ wloop[w] >= WriterBatchSize \/ wpipe[w] = <<>>
  /\ IF Len(wdocs[w]) = 0
       THEN ReturnFromPush(w, FALSE)
       ELSE /\ wpc' = [wpc EXCEPT ![w] = "embed"]
            /\ UNCHANGED <<witem, wchunk>>
  /\ protoOthersUnchanged
  /\ UNCHANGED <<pcProto, put_i, sentinels_put, work_buffer, work_pipe, wbuffer,
                 wpipe, wdocs, wloop, wfrom, proto_cache_rows, proto_index,
                 proto_failures, wtaken>>

\* embed_documents, insert_many, add_bulk_cache; return True
WorkerPushStore(w) ==
  /\ wpc[w] = "embed"
  /\ proto_index' = proto_index \cup {wdocs[w][i].id : i \in 1..Len(wdocs[w])}
  /\ proto_cache_rows' =
       add_bulk_cache(proto_cache_rows,
         CacheData(wdocs[w],
                   [i \in 1..Len(wdocs[w]) |-> Embed(wdocs[w][i].content)]))
  /\ ReturnFromPush(w, TRUE)
  /\ protoOthersUnchanged
  /\ UNCHANGED <<pcProto, put_i, sentinels_put, work_buffer, work_pipe, wbuffer,
                 wpipe, wdocs, wloop, wfrom, proto_failures, wtaken>>

\* embed_documents raises: nothing in push_batch, add_document or
\* process_items catches it, the worker process ends with the exception
WorkerPushRaises(w) ==
  /\ wpc[w] = "embed"
  /\ proto_failures < MaxWriterFailures
  /\ proto_failures' = proto_failures + 1
  /\ wpc' = [wpc EXCEPT ![w] = "raised"]
  /\ protoOthersUnchanged
  /\ UNCHANGED <<pcProto, put_i, sentinels_put, work_buffer, work_pipe, witem,
                 wchunk, wbuffer, wpipe, wdocs, wloop, wfrom, proto_cache_rows,
                 proto_index, wtaken>>

WorkerStep(w) ==
  \/ WorkerGet(w)
  \/ WorkerAddDocument(w)
  \/ WorkerDocFeed(w)
  \/ WorkerDrain(w)
  \/ WorkerPushCheckEmpty(w)
  \/ WorkerPushTake(w)
  \/ WorkerPushLoopEnd(w)
  \/ WorkerPushStore(w)
  \/ WorkerPushRaises(w)

ProtoNext ==
  \/ MainPutItem
  \/ MainPutSentinel
  \/ MainJoin
  \/ WorkFeed
  \/ \E w \in Consumers : WorkerStep(w)

SpecProto == ProtoInit /\ [][ProtoNext]_vars

\* how often worker w took x from the shared queue
TimesTaken(w, x) == Cardinality({n \in 1..Len(wtaken[w]) : wtaken[w][n] = x})

\* the workers that took x
Takers(x) == {w \in Consumers : TimesTaken(w, x) > 0}

\* C30: every item is taken by one worker only and all items are taken
\* before any sentinel; a worker takes one sentinel, and when it has
\* terminated its own document buffer is empty; when the joins of the main
\* process have returned every worker has terminated that way and every
\* item was taken
C30_SentinelShutdown ==
  /\ \A i \in 1..Len(dataset) :
       /\ Cardinality(Takers(i)) <= 1
       /\ \A w \in Consumers : TimesTaken(w, i) <= 1
  /\ (Takers(NoneInt) # {}) => \A i \in 1..Len(dataset) : Takers(i) # {}
  /\ \A w \in Consumers :
       /\ TimesTaken(w, NoneInt) <= 1
       /\ wpc[w] = "exited" =>
            /\ TimesTaken(w, NoneInt) = 1
            /\ wbuffer[w] = <<>> /\ wpipe[w] = <<>>
  /\ pcProto = "returned" =>
       /\ \A w \in Consumers : wpc[w] = "exited"
       /\ \A i \in 1..Len(dataset) : Cardinality(Takers(i)) = 1
====
